---- MODULE Spec2Model ----
(***************************************************************************)
(* A model of the reconciliation engine and the hook runtime: the path     *)
(* generator, mount / update / reconcile / reconcileChildren, the render   *)
(* target (a tree of concrete nodes), useState / useEffect, the effect     *)
(* flusher, the render pass and its hook-store sweep.                      *)
(*                                                                         *)
(* One render pass, one effect flush and one setter call are each one      *)
(* atomic action (execution is single threaded and run to completion).     *)
(* The recursive functions of the source are RECURSIVE operators that      *)
(* thread a "world" record w holding every piece of mutable state the      *)
(* source touches (hook store, cursors, visited set, component stack,      *)
(* effect queue, concrete nodes) together with the observation logs the    *)
(* properties read.                                                        *)
(***************************************************************************)
EXTENDS Integers, Sequences, FiniteSets, TLC

VARIABLES
    hooksState,      \* context.hooks.state   : path -> sequence of hook slots
    hooksCursor,     \* context.hooks.cursor  : path -> next slot index (0 based)
    visited,         \* context.hooks.visited : set of paths
    componentStack,  \* context.hooks.componentStack
    effectsQueue,    \* context.effects.queue : sequence of [path, cursor]
    rootInstance,    \* context.root.instance
    dom,             \* the render target: node id -> [tag, text, kids]
    microtasks,      \* scheduled callbacks in order: "render" / "flush"
    renderScheduled, \* the 'scheduled' flag of enqueueRender
    flushScheduled,  \* the 'scheduled' flag of enqueueFlushEffects
    setters,         \* the setter closures handed out by the last invocations
    universe,        \* the application: its family of child lists and App's initial list
    passes,          \* number of render passes run so far
    calls,           \* number of setter calls since the last render pass
    obs,             \* observations of the last step and of the cleanups outstanding
    pathCase         \* the path generator applied to the sibling lists of two renders

vars == <<hooksState, hooksCursor, visited, componentStack, effectsQueue, rootInstance,
          dom, microtasks, renderScheduled, flushScheduled, setters, universe, passes, calls, obs,
          pathCase>>

(***************************************************************************)
(* Bounds of the model.                                                    *)
(***************************************************************************)
MaxKids == 2        \* longest child list the application renders
MaxPasses == 3      \* render passes explored
MaxCalls == 1       \* setter calls explored between two render passes
MaxVal == 1         \* setter calls pass a value in 0..MaxVal
MaxKeyed == 3       \* number of keyed host children in the "list" family
MaxBatch == 2       \* setter calls one event handler makes

(***************************************************************************)
(* JavaScript values the model needs to tell apart.                        *)
(***************************************************************************)
TEXT_ELEMENT == "#text"
Fragment == "#fragment"
NoKey == "#null"                     \* key === null
NoNode == -1                         \* a null concrete node / null anchor
NoInst == [kind |-> "NULL"]          \* a null Instance
NoVNode == [type |-> "#nullnode"]    \* a null descriptor
Undefined == "#undefined"            \* childNode?.type of a null descriptor
CONTAINER == 0                       \* context.root.container

\* a nodeValue that is a number, as opposed to the string of its digits
Num(n) == "#" \o ToString(n)

\* String(v ?? ""), for the values a nodeValue takes
String(v) ==
    IF v = Undefined THEN ""
    ELSE IF \E n \in 0..(MaxVal + 1) : v = Num(n)
         THEN ToString(CHOOSE n \in 0..(MaxVal + 1) : v = Num(n))
    ELSE v

ComponentTypes == {"App", "A", "B", "E", "K", "T", "S", "R", "Q", "N", "F", "X", "Y", "U", "D"}

\* two results of memo(): distinct functions, both named MemoizedComponent
MemoTypes == {"M1", "M2"}

\* typeof type === "function"
IsComponent(type) == type \in ComponentTypes \cup MemoTypes

\* the name property of a function type
FunctionName(type) == IF type \in MemoTypes THEN "MemoizedComponent" ELSE type

Range(s) == {s[i] : i \in 1..Len(s)}

IndexOf(s, x) == CHOOSE i \in 1..Len(s) : s[i] = x

RemoveAt(s, i) == SubSeq(s, 1, i - 1) \o SubSeq(s, i + 1, Len(s))

InsertAt(s, i, x) == SubSeq(s, 1, i - 1) \o <<x>> \o SubSeq(s, i, Len(s))

\* statements run in order: e, evaluated once the world w left by the
\* statements before it has been evaluated
Then(w, e) == IF w.thrown THEN e ELSE e

\* throw: the statements after it are skipped up to render's caller.
\* thrownAt is an observation: the store, the queue and the target at the throw
Throw(w) ==
    [w EXCEPT !.thrown = TRUE,
              !.thrownAt = <<[state |-> w.state, cursor |-> w.cursor, visited |-> w.visited,
                              queue |-> w.queue, dom |-> w.dom]>>]

\* an Instance is an object that update mutates in place: when a pass is
\* aborted, the old object (same id) is left as the statements run so far
\* made it
InPlace(old, new) ==
    IF old # NoInst /\ new # NoInst /\ new.id = old.id THEN new ELSE old

\* the old child list, whose members are as the aborted loop left them
InPlaceAll(oldChildren, result) ==
    [i \in 1..Len(oldChildren) |->
        IF \E j \in 1..Len(result) : InPlace(oldChildren[i], result[j]) # oldChildren[i]
        THEN InPlace(oldChildren[i], result[CHOOSE j \in 1..Len(result) : InPlace(oldChildren[i], result[j]) # oldChildren[i]])
        ELSE oldChildren[i]]

(***************************************************************************)
(* The render target.  A concrete node is an id; w.dom maps it to its tag, *)
(* its text and the ordered list of its child nodes.                       *)
(***************************************************************************)
HasParent(d, n) == \E m \in DOMAIN d : n \in Range(d[m].kids)

parentNode(d, n) == IF HasParent(d, n) THEN CHOOSE m \in DOMAIN d : n \in Range(d[m].kids) ELSE NoNode

nextSibling(d, n) ==
    IF ~HasParent(d, n) THEN NoNode
    ELSE LET ks == d[parentNode(d, n)].kids
             i == IndexOf(ks, n)
         IN IF i < Len(ks) THEN ks[i + 1] ELSE NoNode

Detach(d, n) ==
    IF ~HasParent(d, n) THEN d
    ELSE LET p == parentNode(d, n)
         IN [d EXCEPT ![p].kids = RemoveAt(@, IndexOf(@, n))]

FreshId(w) == CHOOSE i \in 1..(Cardinality(w.used) + 1) : i \notin w.used

createNode(w, tag, text) ==
    LET id == FreshId(w)
    IN [w |-> [w EXCEPT !.used = @ \cup {id},
                        !.created = @ \cup {id},
                        !.dom = (id :> [tag |-> tag, text |-> text, kids |-> <<>>]) @@ @],
        id |-> id]

\* parentDom.insertBefore(node, anchor): anchor must be a child of parentDom
insertBefore(w, parentDom, node, anchor) ==
    IF parentNode(w.dom, anchor) # parentDom THEN [w EXCEPT !.thrown = TRUE]
    ELSE IF node = anchor THEN w
    ELSE LET d1 == Detach(w.dom, node)
             ks == d1[parentDom].kids
         IN [w EXCEPT !.dom = [d1 EXCEPT ![parentDom].kids = InsertAt(ks, IndexOf(ks, anchor), node)],
                      !.muts = @ + 1]

appendChild(w, parentDom, node) ==
    LET d1 == Detach(w.dom, node)
    IN [w EXCEPT !.dom = [d1 EXCEPT ![parentDom].kids = Append(@, node)],
                 !.muts = @ + 1]

removeChild(w, parentDom, node) ==
    [w EXCEPT !.dom = Detach(w.dom, node), !.muts = @ + 1]

RECURSIVE getDomNodes(_)
RECURSIVE DomNodesOfList(_, _)

DomNodesOfList(children, i) ==
    IF i > Len(children) THEN <<>>
    ELSE getDomNodes(children[i]) \o DomNodesOfList(children, i + 1)

getDomNodes(instance) ==
    IF instance = NoInst THEN <<>>
    ELSE IF instance.kind \in {"HOST", "TEXT"}
         THEN (IF instance.dom # NoNode THEN <<instance.dom>> ELSE <<>>)
    ELSE DomNodesOfList(instance.children, 1)

RECURSIVE getFirstDom(_)
RECURSIVE getFirstDomFromChildren(_, _)

getFirstDomFromChildren(children, i) ==
    IF i > Len(children) THEN NoNode
    ELSE LET n == getFirstDom(children[i])
         IN IF n # NoNode THEN n ELSE getFirstDomFromChildren(children, i + 1)

getFirstDom(instance) ==
    IF instance = NoInst THEN NoNode
    ELSE IF instance.kind \in {"HOST", "TEXT"} THEN instance.dom
    ELSE getFirstDomFromChildren(instance.children, 1)

RECURSIVE InsertNodes(_, _, _, _, _)

InsertNodes(w, parentDom, nodes, i, anchor) ==
    IF i > Len(nodes) THEN w
    ELSE LET node == nodes[i]
             w1 == IF parentNode(w.dom, node) = parentDom /\ nextSibling(w.dom, node) = anchor
                   THEN w
                   ELSE IF anchor # NoNode THEN insertBefore(w, parentDom, node, anchor)
                   ELSE appendChild(w, parentDom, node)
         IN InsertNodes(w1, parentDom, nodes, i + 1, anchor)

insertInstance(w, parentDom, instance, anchor) ==
    InsertNodes(w, parentDom, getDomNodes(instance), 1, anchor)

RECURSIVE RemoveNodes(_, _, _, _)

RemoveNodes(w, parentDom, nodes, i) ==
    IF i > Len(nodes) THEN w
    ELSE LET node == nodes[i]
             w1 == IF parentNode(w.dom, node) = parentDom THEN removeChild(w, parentDom, node) ELSE w
         IN RemoveNodes(w1, parentDom, nodes, i + 1)

\* removeInstance that removes only the last node of the instance
removeInstance_lastOnly(w, parentDom, instance) ==
    RemoveNodes(w, parentDom, getDomNodes(instance), IF getDomNodes(instance) = <<>> THEN 1 ELSE Len(getDomNodes(instance)))

removeInstance(w, parentDom, instance) ==
    RemoveNodes(w, parentDom, getDomNodes(instance), 1)

\* reconcile, node === null: returns null.  xlog is an observation: the
\* instance passed, its nodes, those still attached afterwards, and whether
\* the call changed anything
LogRemoval(w0, w1, parentDom, instance) ==
    [w |-> [w1 EXCEPT !.xlog = Append(@, [kind |-> IF instance = NoInst THEN "none" ELSE instance.kind,
                                          target |-> parentDom,
                                          nodes |-> getDomNodes(instance),
                                          attached |-> {n \in Range(getDomNodes(instance)) : HasParent(w1.dom, n)},
                                          changed |-> w1 # w0])],
     inst |-> NoInst]

(***************************************************************************)
(* Descriptors.  A descriptor is [type, key, nodeValue, children]; props   *)
(* other than nodeValue and children do not occur in the application.      *)
(***************************************************************************)
VNode(type, key, children) == [type |-> type, key |-> key, nodeValue |-> "", children |-> children]

createTextElement(text) == [type |-> TEXT_ELEMENT, key |-> NoKey, nodeValue |-> String(text), children |-> <<>>]

(***************************************************************************)
(* Path generator.  index is 0 based as in the source; siblings is the     *)
(* descriptor list (1 based here), so siblings[0..index-1] of the source   *)
(* are siblings[1..index].                                                 *)
(***************************************************************************)
\* numbers an unkeyed component by its raw index among all siblings
createChildPath_rawIndex(parentPath, key, index, nodeType, siblings) ==
    IF key # NoKey THEN parentPath \o ".k" \o key
    ELSE parentPath \o "." \o (IF IsComponent(nodeType) THEN "i" ELSE "c") \o ToString(index)

createChildPath(parentPath, key, index, nodeType, siblings) ==
    IF key # NoKey THEN parentPath \o ".k" \o key
    ELSE LET typeIndex == Cardinality({i \in 1..index : siblings[i].type = nodeType})
             token == IF IsComponent(nodeType) THEN "i" \o ToString(typeIndex)
                      ELSE "c" \o ToString(index)
         IN parentPath \o "." \o token

\* the path generator of packages/react/src/core/elements.ts; siblings is
\* always passed by the callers and a function type is never falsy
createChildPath_elements(parentPath, key, index, nodeType, siblings) ==
    IF key # NoKey THEN parentPath \o ".k" \o key
    ELSE IF IsComponent(nodeType)
         THEN LET typeIndex == Cardinality({i \in 1..index : siblings[i].type = nodeType})
                  typeName == IF FunctionName(nodeType) # "" THEN FunctionName(nodeType) ELSE "Component"
              IN parentPath \o "." \o typeName \o ToString(typeIndex)
         ELSE parentPath \o ".c" \o ToString(index)

(***************************************************************************)
(* Equality of dependency lists.  A dependency argument is                 *)
(* [t |-> "arr", v |-> <<...>>], or t = "null" / "undef" with v = <<>>.    *)
(* Two array literals are never the same object, so Object.is of step 1    *)
(* holds only between two nulls or two undefineds.                         *)
(***************************************************************************)
Deps(seq) == [t |-> "arr", v |-> seq]
NullDeps == [t |-> "null", v |-> <<>>]
UndefDeps == [t |-> "undef", v |-> <<>>]

shallowEquals_lengthOnly(a, b) ==
    IF a.t # "arr" \/ b.t # "arr" THEN a.t = b.t
    ELSE Len(a.v) = Len(b.v)

shallowEquals(a, b) ==
    IF a.t # "arr" \/ b.t # "arr" THEN a.t = b.t
    ELSE /\ Len(a.v) = Len(b.v)
         /\ \A i \in 1..Len(a.v) : a.v[i] = b.v[i]

\* an object literal {n: <number>}: its identity and its content
Obj(ref, n) == [ref |-> ref, n |-> n]

\* deepEquals on dependency lists whose members are such objects: step 1 is
\* Object.is, step 7 compares the one key n, a number, again by step 1
deepEquals(a, b) ==
    IF a.t # "arr" \/ b.t # "arr" THEN a.t = b.t
    ELSE /\ Len(a.v) = Len(b.v)
         /\ \A i \in 1..Len(a.v) : a.v[i] = b.v[i] \/ a.v[i].n = b.v[i].n

(***************************************************************************)
(* Hook slots.  A state slot holds a bare value; an effect slot is the     *)
(* record {kind, deps, cleanup, effect}.  Functions are named by strings;  *)
(* NoFn is null.  An effect thunk is named together with the pass that     *)
(* created it.                                                             *)
(***************************************************************************)
NoFn == "null"
OBJ == -1       \* what a useState call gets when the slot holds an effect record

StateSlot(v) == [kind |-> "state", value |-> v, deps |-> UndefDeps, cleanup |-> NoFn,
                 effect |-> [fn |-> NoFn, made |-> 0]]

EffectSlot(deps, cleanup, effect) == [kind |-> "effect", value |-> OBJ, deps |-> deps, cleanup |-> cleanup, effect |-> effect]

Falsy(v) == v = 0

currentPath(w) == w.stack[Len(w.stack)]

currentCursor(w) == IF currentPath(w) \in DOMAIN w.cursor THEN w.cursor[currentPath(w)] ELSE 0

currentHooks(w) == IF currentPath(w) \in DOMAIN w.state THEN w.state[currentPath(w)] ELSE <<>>

\* writes go to the array of the store; an array handed out for a path that
\* has no store entry is a temporary and the write is lost
WriteSlot(w, path, cursor, slot) ==
    IF path \notin DOMAIN w.state THEN w
    ELSE IF cursor >= Len(w.state[path])
         THEN [w EXCEPT !.state[path] = Append(@, slot)]
    ELSE [w EXCEPT !.state[path][cursor + 1] = slot]

SetCursor(w, path, c) == [w EXCEPT !.cursor = (path :> c) @@ @]

\* withEnqueue(fn)(): fn is queued as a microtask unless it is already
\* scheduled; 'scheduled' is the flag of the closure, cleared when the
\* microtask starts to run fn
withEnqueue(scheduled, micro, fn) ==
    IF scheduled THEN [scheduled |-> TRUE, micro |-> micro]
    ELSE [scheduled |-> TRUE, micro |-> Append(micro, fn)]

\* enqueueFlushEffects that sets the flag and queues nothing
enqueueFlushEffects_flagOnly(w) == [w EXCEPT !.fsched = TRUE]

enqueueFlushEffects(w) ==
    LET e == withEnqueue(w.fsched, w.micro, "flush")
    IN [w EXCEPT !.fsched = e.scheduled, !.micro = e.micro]

\* plog and active are observations: the passes started, each with the
\* passes that were executing when it started, and the passes executing now
StartPass(w, op) ==
    [w EXCEPT !.plog = Append(@, [op |-> op, inside |-> w.active]), !.active = Append(@, op)]

EndPass(w) == [w EXCEPT !.active = SubSeq(@, 1, Len(@) - 1)]

RECURSIVE render(_)

\* enqueueRender that runs the pass inside the call
enqueueRender_sync(w) == render(w)

\* enqueueRender without the flag: every call queues a pass
enqueueRender_everyCall(w) == [w EXCEPT !.rsched = TRUE, !.micro = Append(@, "render")]

enqueueRender(w) ==
    LET e == withEnqueue(w.rsched, w.micro, "render")
    IN [w EXCEPT !.rsched = e.scheduled, !.micro = e.micro]

\* the argument of a setter call: a value, or an updater of the previous value
Value(v) == [fn |-> "value", v |-> v]
Updater(f) == [fn |-> f, v |-> 0]

\* the updater of the application, prev => prev + 1, applied to hooks[cursor];
\* an effect record plus one is a string, which the model does not tell
\* apart from the record
ApplyUpdater(f, hook) == IF hook.kind = "state" THEN hook.value + 1 ELSE OBJ

\* typeof nextValue === "function" ? nextValue(hooks[cursor]) : nextValue
NewValue(hook, nextValue) ==
    IF nextValue.fn = "value" THEN nextValue.v ELSE ApplyUpdater(nextValue.fn, hook)

\* setState without the comparison
setState_noCompare(w, path, cursor, nextValue) ==
    LET hook == w.state[path][cursor + 1]
        newValue == NewValue(hook, nextValue)
    IN enqueueRender([w EXCEPT !.state[path][cursor + 1] = StateSlot(newValue)])

\* setState returning early while a pass is already scheduled
setState_skipWhenScheduled(w, path, cursor, nextValue) ==
    LET hook == w.state[path][cursor + 1]
        newValue == NewValue(hook, nextValue)
        same == hook.kind = "state" /\ hook.value = newValue
    IN IF same \/ w.rsched THEN w
       ELSE enqueueRender([w EXCEPT !.state[path][cursor + 1] = StateSlot(newValue)])

\* the setter returned by useState at (path, cursor), called with nextValue
setState(w, path, cursor, nextValue) ==
    LET hook == w.state[path][cursor + 1]
        newValue == NewValue(hook, nextValue)
        same == hook.kind = "state" /\ hook.value = newValue      \* Object.is
    IN IF same THEN w
       ELSE enqueueRender([w EXCEPT !.state[path][cursor + 1] = StateSlot(newValue)])

Count(s, x) == Cardinality({i \in 1..Len(s) : s[i] = x})

\* observation of one setter call: w0 before the call, w1 after it
LogSet(w0, w1, path, cursor, nextValue) ==
    [w1 EXCEPT !.slog = Append(@, [path |-> path, cursor |-> cursor, arg |-> nextValue,
                                   prev |-> w0.state[path][cursor + 1],
                                   next |-> w1.state[path][cursor + 1],
                                   wrote |-> w1.state # w0.state,
                                   queued |-> Count(w1.micro, "render") - Count(w0.micro, "render"),
                                   pending |-> Count(w1.micro, "render"),
                                   hookCalls |-> Len(w1.hlog) - Len(w0.hlog),
                                   invoked |-> Len(w1.ilog) - Len(w0.ilog),
                                   started |-> Len(w1.plog) - Len(w0.plog),
                                   tree |-> <<w1.root, w1.dom>> = <<w0.root, w0.dom>>,
                                   in |-> w0.last])]

\* application code calls the setter of (path, cursor)
CallSet(w, path, cursor, nextValue) ==
    LogSet(w, setState(w, path, cursor, nextValue), path, cursor, nextValue)

useState(w, comp, initialValue) ==
    LET path == currentPath(w)
        cursor == currentCursor(w)
        hooks == currentHooks(w)
        w1 == IF cursor >= Len(hooks) THEN WriteSlot(w, path, cursor, StateSlot(initialValue)) ELSE w
        slot == IF cursor >= Len(hooks) THEN StateSlot(initialValue) ELSE hooks[cursor + 1]
        currentState == IF slot.kind = "state" THEN slot.value ELSE OBJ
        w2 == [w1 EXCEPT !.hlog = Append(@, [op |-> "useState", path |-> path, cursor |-> cursor,
                                              comp |-> comp, fresh |-> cursor >= Len(hooks),
                                              asFirst |-> currentState = initialValue,
                                              value |-> currentState,
                                              len |-> Len(hooks), lenAfter |-> Len(currentHooks(w1))]),
                         !.setters = IF path \in DOMAIN w.state
                                     THEN {s \in @ : ~(s.path = path /\ s.cursor = cursor)}
                                          \cup {[path |-> path, cursor |-> cursor, comp |-> comp]}
                                     ELSE @]
    IN [w |-> SetCursor(w2, path, cursor + 1), value |-> currentState]

\* useRef: one slot of the calling component holding the ref object; no
\* setter is handed out
useRef(w, comp, initialValue) ==
    LET path == currentPath(w)
        cursor == currentCursor(w)
        hooks == currentHooks(w)
        w1 == IF cursor >= Len(hooks) THEN WriteSlot(w, path, cursor, StateSlot(initialValue)) ELSE w
        slot == IF cursor >= Len(hooks) THEN StateSlot(initialValue) ELSE hooks[cursor + 1]
        w2 == [w1 EXCEPT !.hlog = Append(@, [op |-> "useRef", path |-> path, cursor |-> cursor,
                                              comp |-> comp, fresh |-> cursor >= Len(hooks),
                                              asFirst |-> cursor >= Len(hooks),
                                              value |-> slot.value,
                                              len |-> Len(hooks), lenAfter |-> Len(currentHooks(w1))])]
    IN [w |-> SetCursor(w2, path, cursor + 1), path |-> path, cursor |-> cursor, current |-> slot.value]

\* ref.current of useMemo: null, or {deps, value}
NullRef == [set |-> FALSE, deps |-> NullDeps, value |-> [n |-> 0, made |-> 0]]

\* factory is the value factory() returns if it is called in this render;
\* equals names the equality function passed
useMemo(w, comp, factory, deps, equals) ==
    LET ref == useRef(w, comp, NullRef)
        stale == ~ref.current.set
                 \/ ~(IF equals = "deepEquals" THEN deepEquals(ref.current.deps, deps)
                      ELSE shallowEquals(ref.current.deps, deps))
        current == IF stale THEN [set |-> TRUE, deps |-> deps, value |-> factory] ELSE ref.current
        w1 == IF stale THEN WriteSlot(ref.w, ref.path, ref.cursor, StateSlot(current)) ELSE ref.w
    IN [w |-> [w1 EXCEPT !.mlog = Append(@, [path |-> ref.path, cursor |-> ref.cursor, comp |-> comp,
                                             first |-> ~ref.current.set,
                                             prevDeps |-> ref.current.deps, deps |-> deps,
                                             prevValue |-> ref.current.value, factory |-> factory,
                                             called |-> stale, returned |-> current.value])],
        value |-> current.value]

\* compares the dependency lists by shallowEquals
useDeepMemo_shallow(w, comp, factory, deps) == useMemo(w, comp, factory, deps, "shallowEquals")

useDeepMemo(w, comp, factory, deps) == useMemo(w, comp, factory, deps, "deepEquals")

\* writes the slot only when the effect is queued
useEffect_storeWhenChanged(w, comp, effect, deps) ==
    LET path == currentPath(w)
        cursor == currentCursor(w)
        hooks == currentHooks(w)
        hasOld == cursor < Len(hooks)              \* hooks[cursor] !== undefined
        oldHook == IF hasOld THEN hooks[cursor + 1] ELSE StateSlot(0)
        depsChanged == \/ ~hasOld
                       \/ (oldHook.kind = "state" /\ Falsy(oldHook.value))   \* !oldHook
                       \/ deps.t = "undef"
                       \/ oldHook.deps.t = "null"
                       \/ ~shallowEquals(deps, oldHook.deps)
        w1 == IF depsChanged
              THEN enqueueFlushEffects([w EXCEPT !.queue = Append(@, [path |-> path, cursor |-> cursor])])
              ELSE w
        newHook == EffectSlot(IF deps.t = "undef" THEN NullDeps ELSE deps,
                              IF hasOld /\ oldHook.kind = "effect" THEN oldHook.cleanup ELSE NoFn,
                              effect)
        w2 == IF depsChanged THEN WriteSlot(w1, path, cursor, newHook) ELSE w1
        w3 == [w2 EXCEPT !.hlog = Append(@, [op |-> "useEffect", path |-> path, cursor |-> cursor,
                                              comp |-> comp, fresh |-> ~hasOld,
                                              asFirst |-> Len(w1.queue) > Len(w.queue),
                                              prevKind |-> IF hasOld THEN oldHook.kind ELSE "none",
                                              prevDeps |-> oldHook.deps, deps |-> deps,
                                              effect |-> effect, prevEffect |-> oldHook.effect,
                                              prevCleanup |-> IF hasOld /\ oldHook.kind = "effect" THEN oldHook.cleanup ELSE NoFn,
                                              stored |-> IF path \in DOMAIN w2.state THEN w2.state[path][cursor + 1] ELSE newHook,
                                              enqueued |-> Len(w1.queue) > Len(w.queue),
                                              len |-> Len(hooks), lenAfter |-> Len(currentHooks(w2))])]
    IN SetCursor(w3, path, cursor + 1)

useEffect(w, comp, effect, deps) ==
    LET path == currentPath(w)
        cursor == currentCursor(w)
        hooks == currentHooks(w)
        hasOld == cursor < Len(hooks)              \* hooks[cursor] !== undefined
        oldHook == IF hasOld THEN hooks[cursor + 1] ELSE StateSlot(0)
        depsChanged == \/ ~hasOld
                       \/ (oldHook.kind = "state" /\ Falsy(oldHook.value))   \* !oldHook
                       \/ deps.t = "undef"
                       \/ oldHook.deps.t = "null"
                       \/ ~shallowEquals(deps, oldHook.deps)
        w1 == IF depsChanged
              THEN enqueueFlushEffects([w EXCEPT !.queue = Append(@, [path |-> path, cursor |-> cursor])])
              ELSE w
        newHook == EffectSlot(IF deps.t = "undef" THEN NullDeps ELSE deps,
                              IF hasOld /\ oldHook.kind = "effect" THEN oldHook.cleanup ELSE NoFn,
                              effect)
        w2 == WriteSlot(w1, path, cursor, newHook)
        w3 == [w2 EXCEPT !.hlog = Append(@, [op |-> "useEffect", path |-> path, cursor |-> cursor,
                                              comp |-> comp, fresh |-> ~hasOld,
                                              asFirst |-> Len(w1.queue) > Len(w.queue),
                                              prevKind |-> IF hasOld THEN oldHook.kind ELSE "none",
                                              prevDeps |-> oldHook.deps, deps |-> deps,
                                              effect |-> effect, prevEffect |-> oldHook.effect,
                                              prevCleanup |-> IF hasOld /\ oldHook.kind = "effect" THEN oldHook.cleanup ELSE NoFn,
                                              stored |-> IF path \in DOMAIN w2.state THEN w2.state[path][cursor + 1] ELSE newHook,
                                              enqueued |-> Len(w1.queue) > Len(w.queue),
                                              len |-> Len(hooks), lenAfter |-> Len(currentHooks(w2))])]
    IN SetCursor(w3, path, cursor + 1)

(***************************************************************************)
(* The application: the component functions the runtime invokes.           *)
(*   App : useState(initial child list); renders <div>{...list}</div>      *)
(*   A   : [count] = useState(0); useEffect(fxA, [count]), fxA returns a   *)
(*         cleanup; renders the text String(count)                         *)
(*   B   : useState(0); useState(0); renders <span/>                       *)
(*   E   : [n] = useState(0); useEffect(fxE, n === 0 ? undefined : [n]),   *)
(*         fxE returns nothing; renders <em/>                              *)
(*   K   : [k] = useState(0); renders <A key={String(k)}/>                 *)
(*   T   : [t] = useState(0); renders t === 0 ? <A key="t"/> : <E key="t"/>*)
(*   S   : [n, setN] = useState(0); useEffect(fxS, [n]); renders String(n); *)
(*         fxS = () => { if (n === 0) { setN(p => p + 1); setN(p => p + 1) }*)
(*                       return cleanupS },  cleanupS = () => setN(0)       *)
(*   R   : [n, setN] = useState(0); if (n === 0) setN(1); renders <em/>     *)
(*   Q   : [n, setN] = useState(0); useEffect(fxQ, [n]); renders <em/>;     *)
(*         fxQ = () => { if (n === 0) { setN(1); enqueue its own slot as    *)
(*                       useEffect does, and request a flush } }            *)
(*   N   : [n] = useState(0); renders n === 0 ? null : <F/>                 *)
(*   F   : useState(0); renders <><p/><span/></>                            *)
(***************************************************************************)
CompNode(type, key) == VNode(type, key, <<>>)

\* the child lists the application is run on, one family per concern
Universes == {"types", "keys", "hosts", "list", "wrap"}

\* the families of AppSpec
AppUniverses == {"sched", "tree", "memo"}

\* the nodeValue props of the text descriptors of the family "text": two
\* strings, a number, and none
RawValues == {"a", "1", Num(1), Undefined}

Items(u) ==
    IF u = "types" THEN {CompNode("A", NoKey), CompNode("B", NoKey), CompNode("E", NoKey)}
    ELSE IF u = "keys" THEN {CompNode("A", NoKey), CompNode("A", "1"), CompNode("A", "2")}
    ELSE IF u = "hosts" THEN {CompNode("A", NoKey), VNode("p", NoKey, <<CompNode("A", NoKey)>>),
                              VNode("span", NoKey, <<CompNode("A", NoKey)>>)}
    ELSE IF u = "wrap" THEN {CompNode("K", NoKey), CompNode("T", NoKey)}
    ELSE IF u = "stale" THEN {CompNode("A", "a"), CompNode("B", "b")}
    ELSE IF u = "memo" THEN {CompNode("U", "u"), CompNode("D", "d")}
    ELSE IF u = "live" THEN {CompNode("R", "2"), CompNode("Q", "3")}
    ELSE IF u = "sched" THEN {CompNode("S", "1"), CompNode("R", "2"), CompNode("Q", "3")}
    ELSE IF u = "throw" THEN {CompNode("A", NoKey), CompNode("E", NoKey), CompNode("X", "x"),
                              CompNode("Y", "y")}
    ELSE IF u = "text" THEN {[createTextElement("a") EXCEPT !.nodeValue = v] : v \in RawValues}
    ELSE IF u = "tree" THEN {CompNode("N", "1"), CompNode("F", "2"),
                             VNode(Fragment, NoKey, <<VNode("p", NoKey, <<>>), VNode("span", NoKey, <<>>)>>)}
    ELSE {VNode("li", ToString(k), <<>>) : k \in 1..MaxKeyed}

DistinctKeys(l) ==
    \A i, j \in 1..Len(l) : (i # j /\ l[i].key # NoKey) => l[i].key # l[j].key

SeqsUpTo(S, n) == UNION {[1..k -> S] : k \in 0..n}

Layouts(u) ==
    {l \in SeqsUpTo(Items(u), IF u = "list" THEN MaxKeyed ELSE MaxKids) : DistinctKeys(l)}

\* the closure a component body creates for useEffect: its code and the pass
\* that created it (every render creates a new function object)
Thunk(fn, w) == [fn |-> fn, made |-> w.epoch]

EffectReturn(effect) ==
    IF effect = "fxA" THEN "cleanupA" ELSE IF effect = "fxS" THEN "cleanupS" ELSE NoFn

\* the body of an effect thunk; hook is the record the flusher read, whose
\* deps hold the n the thunk closed over
RunThunk(w, path, cursor, hook) ==
    IF hook.effect.fn = "fxS" /\ hook.deps.t = "arr" /\ hook.deps.v = <<0>>
    THEN CallSet(CallSet(w, path, 0, Updater("inc")), path, 0, Updater("inc"))
    ELSE IF hook.effect.fn = "fxQ" /\ hook.deps.t = "arr" /\ hook.deps.v = <<0>>
    THEN enqueueFlushEffects([CallSet(w, path, 0, Value(1))
                                 EXCEPT !.queue = Append(@, [path |-> path, cursor |-> cursor])])
    ELSE w

\* the body of a cleanup function
RunCleanup(w, path, fn) ==
    IF fn = "cleanupS" THEN CallSet(w, path, 0, Value(0)) ELSE w

RunComponent(w, node) ==
    IF node.type = "App" THEN
        LET r == useState(w, "App", w.universe.initial)
        IN [w |-> r.w, child |-> VNode("div", NoKey, r.value)]
    ELSE IF node.type = "A" THEN
        LET r == useState(w, "A", 0)
        IN [w |-> useEffect(r.w, "A", Thunk("fxA", w), Deps(<<r.value>>)),
            child |-> createTextElement(Num(r.value))]
    ELSE IF node.type = "B" THEN
        LET r1 == useState(w, "B", 0)
            r2 == useState(r1.w, "B", 0)
        IN [w |-> r2.w, child |-> VNode("span", NoKey, <<>>)]
    ELSE IF node.type = "K" THEN
        LET r == useState(w, "K", 0)
        IN [w |-> r.w, child |-> CompNode("A", ToString(r.value))]
    ELSE IF node.type = "T" THEN
        LET r == useState(w, "T", 0)
        IN [w |-> r.w, child |-> CompNode(IF r.value = 0 THEN "A" ELSE "E", "t")]
    ELSE IF node.type = "S" THEN
        LET r == useState(w, "S", 0)
        IN [w |-> useEffect(r.w, "S", Thunk("fxS", w), Deps(<<r.value>>)),
            child |-> createTextElement(Num(r.value))]
    ELSE IF node.type = "Q" THEN
        LET r == useState(w, "Q", 0)
        IN [w |-> useEffect(r.w, "Q", Thunk("fxQ", w), Deps(<<r.value>>)),
            child |-> VNode("em", NoKey, <<>>)]
    ELSE IF node.type = "R" THEN
        LET r == useState(w, "R", 0)
        IN [w |-> IF r.value = 0 THEN CallSet(r.w, currentPath(w), currentCursor(w), Value(1)) ELSE r.w,
            child |-> VNode("em", NoKey, <<>>)]
    ELSE IF node.type = "N" THEN
        LET r == useState(w, "N", 0)
        IN [w |-> r.w, child |-> IF r.value = 0 THEN NoVNode ELSE CompNode("F", NoKey)]
    ELSE IF node.type = "X" THEN
        LET r == useState(w, "X", 0)
        IN [w |-> Throw(r.w), child |-> NoVNode]
    ELSE IF node.type = "Y" THEN
        LET r == useState(w, "Y", 0)
        IN [w |-> IF r.value = 1 THEN Throw(r.w) ELSE r.w, child |-> VNode("em", NoKey, <<>>)]
    ELSE IF node.type = "U" THEN
        LET r == useState(w, "U", 0)
        IN [w |-> useMemo(r.w, "U", [n |-> r.value, made |-> w.epoch], Deps(<<r.value>>), "shallowEquals").w,
            child |-> VNode("em", NoKey, <<>>)]
    ELSE IF node.type = "D" THEN
        LET r == useState(w, "D", 0)
        IN [w |-> useDeepMemo(r.w, "D", [n |-> r.value, made |-> w.epoch],
                              Deps(<<Obj(w.epoch, r.value)>>)).w,
            child |-> VNode("em", NoKey, <<>>)]
    ELSE IF node.type = "F" THEN
        LET r == useState(w, "F", 0)
        IN [w |-> r.w,
            child |-> VNode(Fragment, NoKey, <<VNode("p", NoKey, <<>>), VNode("span", NoKey, <<>>)>>)]
    ELSE
        LET r == useState(w, "E", 0)
        IN [w |-> useEffect(r.w, "E", Thunk("fxE", w), IF r.value = 0 THEN UndefDeps ELSE Deps(<<r.value>>)),
            child |-> VNode("em", NoKey, <<>>)]

\* ilog is an observation: one entry per invocation of a component function
\* inside withComponentHooks, with the cursor of the path before and after
\* it and the range of hlog its hook calls fill
LogInvocation(w0, f, node) ==
    [f EXCEPT !.w.ilog = Append(@, [path |-> currentPath(w0), comp |-> node.type,
                                    stack |-> w0.stack,
                                    start |-> currentCursor(w0), end |-> currentCursor(f.w),
                                    from |-> Len(w0.hlog), to |-> Len(f.w.hlog)])]

\* (type as React.ComponentType)(props), called by mountComponent and updateComponent
InvokeComponent(w, node) == LogInvocation(w, RunComponent(w, node), node)

(***************************************************************************)
(* reconciler-helpers                                                      *)
(***************************************************************************)
filterValidChildren(children) == children      \* descriptors are normalised: no empty values

\* withComponentHooks that leaves the cursor of the path as it was
EnterComponent_keepCursor(w, path) ==
    [w EXCEPT !.stack = Append(@, path), !.visited = @ \cup {path}]

\* withComponentHooks, before fn()
EnterComponent(w, path) ==
    SetCursor([w EXCEPT !.stack = Append(@, path), !.visited = @ \cup {path}], path, 0)

\* withComponentHooks, the finally block
\* pops only when fn() returned: try without finally
ExitComponent_noFinally(w) == IF w.thrown THEN w ELSE [w EXCEPT !.stack = SubSeq(@, 1, Len(@) - 1)]

ExitComponent(w) == [w EXCEPT !.stack = SubSeq(@, 1, Len(@) - 1)]

NewInstance(w, kind, domNode, node, children, path) ==
    LET id == FreshId(w)
    IN [w |-> [w EXCEPT !.used = @ \cup {id}, !.created = @ \cup {id}],
        inst |-> [id |-> id, kind |-> kind, dom |-> domNode, node |-> node,
                  children |-> children, key |-> node.key, path |-> path, at |-> path]]

\* the instances of a subtree, each summarised (observation helper)
RECURSIVE Insts(_)
Insts(inst) ==
    IF inst = NoInst THEN {}
    ELSE {[id |-> inst.id, kind |-> inst.kind, path |-> inst.at, type |-> inst.node.type,
           key |-> inst.key, dom |-> inst.dom]}
         \cup UNION {Insts(inst.children[i]) : i \in 1..Len(inst.children)}

InstIds(inst) == {c.id : c \in Insts(inst)}

\* the slots of the components of a subtree that hold a cleanup to be called
OutstandingCleanups(w, instance) ==
    UNION {{<<c.path, i - 1>> : i \in {j \in 1..Len(w.state[c.path]) :
                                          /\ w.state[c.path][j].kind = "effect"
                                          /\ w.state[c.path][j].cleanup # NoFn}} :
           c \in {d \in Insts(instance) : d.kind = "COMPONENT" /\ d.path \in DOMAIN w.state}}

HookSummary(e) ==
    [op |-> e.op, path |-> e.path, cursor |-> e.cursor, comp |-> e.comp, fresh |-> e.fresh,
     asFirst |-> e.asFirst]

\* the field 'at' of an instance is an observation, not a field of the source:
\* the path the instance was last reconciled at ('path' is never refreshed)
LogReconcile(w0, r, parentDom, instance, node, path) ==
    IF r.w.thrown THEN [w |-> r.w, inst |-> InPlace(instance, r.inst)]
    ELSE [r EXCEPT !.inst.at = path, !.w.rlog = @ \cup
            {[path |-> path, oldPath |-> instance.at,
              oldId |-> instance.id, oldDom |-> instance.dom,
              hooks |-> {HookSummary(r.w.hlog[i]) : i \in (Len(w0.hlog) + 1)..Len(r.w.hlog)},
              oldCleanups |-> OutstandingCleanups(w0, instance),
              oldType |-> instance.node.type, oldKey |-> instance.key,
              newType |-> node.type, newKey |-> node.key,
              newId |-> r.inst.id, newDom |-> r.inst.dom,
              fresh |-> r.inst.id \notin w0.used,
              oldNodes |-> Range(getDomNodes(instance)),
              newNodes |-> Range(getDomNodes(r.inst)),
              attached |-> {n \in Range(getDomNodes(instance)) : parentNode(r.w.dom, n) = parentDom}]}]

RECURSIVE reconcile(_, _, _, _, _)
RECURSIVE reconcileChildren(_, _, _, _, _)
RECURSIVE mount(_, _, _, _)
RECURSIVE update(_, _, _, _, _)
RECURSIVE ReconcileEach(_, _, _, _, _, _, _, _, _)
RECURSIVE ReconcileEach_anyPos(_, _, _, _, _, _, _, _, _)

(***************************************************************************)
(* mount                                                                   *)
(***************************************************************************)
mountText(w, node, path) ==
    LET c == createNode(w, TEXT_ELEMENT, String(node.nodeValue))
    IN NewInstance(c.w, "TEXT", c.id, node, <<>>, path)

mountFragment(w, parentDom, node, path) ==
    LET rc == reconcileChildren(w, parentDom, <<>>, filterValidChildren(node.children), path)
    IN IF rc.w.thrown THEN [w |-> rc.w, inst |-> NoInst]
       ELSE NewInstance(rc.w, "FRAGMENT", NoNode, node, rc.children, path)

\* mountComponent, from "return { kind: NodeTypes.COMPONENT, ... }": r is the
\* result of reconciling the child
mountComponentResult(r, node, path) ==
    LET n == NewInstance(r.w, "COMPONENT", NoNode, node, <<r.inst>>, path)
    IN IF r.w.thrown THEN [w |-> ExitComponent(r.w), inst |-> NoInst]
       ELSE [w |-> ExitComponent(n.w), inst |-> n.inst]

\* mountComponent, from "const childPath = ...": f is the result of the
\* component function
mountComponentChild(f, parentDom, node, path) ==
    LET childNode == f.child
        childPath == IF childNode = NoVNode THEN createChildPath(path, NoKey, 0, Undefined, <<>>)
                     ELSE createChildPath(path, childNode.key, 0, childNode.type, <<childNode>>)
    IN IF f.w.thrown THEN [w |-> ExitComponent(f.w), inst |-> NoInst]
       ELSE mountComponentResult(reconcile(f.w, parentDom, NoInst, childNode, childPath), node, path)

mountComponent(w, parentDom, node, path) ==
    LET w1 == IF path \notin DOMAIN w.state THEN [w EXCEPT !.state = (path :> <<>>) @@ @] ELSE w
        w2 == EnterComponent(w1, path)
    IN mountComponentChild(InvokeComponent(w2, node), parentDom, node, path)

mountHost(w, node, path) ==
    LET c == createNode(w, node.type, "")
        rc == reconcileChildren(c.w, c.id, <<>>, filterValidChildren(node.children), path)
    IN IF rc.w.thrown THEN [w |-> rc.w, inst |-> NoInst]
       ELSE NewInstance(rc.w, "HOST", c.id, node, rc.children, path)

mount(w, parentDom, node, path) ==
    CASE node.type = TEXT_ELEMENT -> mountText(w, node, path)
      [] node.type = Fragment -> mountFragment(w, parentDom, node, path)
      [] IsComponent(node.type) -> mountComponent(w, parentDom, node, path)
      [] OTHER -> mountHost(w, node, path)

(***************************************************************************)
(* update                                                                  *)
(***************************************************************************)
\* tlog is an observation: one entry per call of updateText
LogText(w0, w1, instance, result, node) ==
    [w |-> [w1 EXCEPT !.tlog = Append(@, [id |-> instance.id, dom |-> instance.dom,
                                          old |-> instance.node.nodeValue, new |-> node.nodeValue,
                                          before |-> w0.dom[instance.dom].text,
                                          after |-> w1.dom[instance.dom].text,
                                          written |-> w1.muts - w0.muts,
                                          created |-> w1.created \ w0.created,
                                          same |-> result.id = instance.id /\ result.dom = instance.dom,
                                          stored |-> result.node])],
     inst |-> result]

\* newTextContent is a string, oldTextContent the nodeValue as the stored
\* descriptor holds it: !== is strict
updateText(w, instance, node) ==
    LET newTextContent == String(node.nodeValue)
        oldTextContent == instance.node.nodeValue
        w1 == IF newTextContent # oldTextContent /\ instance.dom # NoNode
              THEN [w EXCEPT !.dom[instance.dom].text = newTextContent, !.muts = @ + 1]
              ELSE w
    IN LogText(w, w1, instance, [instance EXCEPT !.node = node], node)

updateFragment(w, parentDom, instance, node, path) ==
    LET rc == reconcileChildren(w, parentDom, instance.children, filterValidChildren(node.children), path)
    IN IF rc.w.thrown THEN [w |-> rc.w, inst |-> [instance EXCEPT !.children = rc.children]]
       ELSE [w |-> rc.w, inst |-> [instance EXCEPT !.children = rc.children, !.node = node]]

\* updateComponent, from "if (newChild && newChild !== oldChild)": r is the
\* result of reconciling the child
updateComponentResult(r, parentDom, instance, node) ==
    LET oldChild == instance.children[1]
        newChild == r.inst
        w2 == IF newChild # NoInst /\ (oldChild = NoInst \/ newChild.id # oldChild.id)
              THEN insertInstance(r.w, parentDom, newChild, NoNode)
              ELSE r.w
    IN IF r.w.thrown
       THEN [w |-> ExitComponent(r.w), inst |-> [instance EXCEPT !.children = <<InPlace(oldChild, newChild)>>]]
       ELSE [w |-> ExitComponent(w2), inst |-> [instance EXCEPT !.children = <<newChild>>, !.node = node]]

\* updateComponent, from "const oldChild = ...": f is the result of the
\* component function
updateComponentChild(f, parentDom, instance, node, path) ==
    LET childNode == f.child
        oldChild == instance.children[1]
        childPath == IF childNode = NoVNode THEN createChildPath(path, NoKey, 0, Undefined, <<>>)
                     ELSE createChildPath(path, childNode.key, 0, childNode.type, <<childNode>>)
    IN IF f.w.thrown THEN [w |-> ExitComponent(f.w), inst |-> instance]
       ELSE updateComponentResult(reconcile(f.w, parentDom, oldChild, childNode, childPath),
                                  parentDom, instance, node)

updateComponent(w, parentDom, instance, node, path) ==
    updateComponentChild(InvokeComponent(EnterComponent(w, path), node), parentDom, instance, node, path)

updateHost(w, instance, node, path) ==
    IF instance.dom # NoNode
    THEN LET rc == reconcileChildren(w, instance.dom, instance.children, filterValidChildren(node.children), path)
         IN IF rc.w.thrown THEN [w |-> rc.w, inst |-> [instance EXCEPT !.children = rc.children]]
            ELSE [w |-> rc.w, inst |-> [instance EXCEPT !.children = rc.children, !.node = node]]
    ELSE [w |-> w, inst |-> instance]

update(w, parentDom, instance, node, path) ==
    CASE node.type = TEXT_ELEMENT -> updateText(w, instance, node)
      [] node.type = Fragment -> updateFragment(w, parentDom, instance, node, path)
      [] IsComponent(node.type) -> updateComponent(w, parentDom, instance, node, path)
      [] OTHER -> updateHost(w, instance, node, path)

(***************************************************************************)
(* reconciler                                                              *)
(***************************************************************************)
reconcile_ignoreKey(w, parentDom, instance, node, path) ==
    CASE node = NoVNode -> [w |-> removeInstance(w, parentDom, instance), inst |-> NoInst]
      [] node # NoVNode /\ instance = NoInst -> mount(w, parentDom, node, path)
      [] node # NoVNode /\ instance # NoInst /\ instance.node.type # node.type ->
            LogReconcile(w, mount(removeInstance(w, parentDom, instance), parentDom, node, path),
                         parentDom, instance, node, path)
      [] OTHER -> LogReconcile(w, update(w, parentDom, instance, node, path),
                               parentDom, instance, node, path)

reconcile(w, parentDom, instance, node, path) ==
    CASE node = NoVNode -> LogRemoval(w, removeInstance(w, parentDom, instance), parentDom, instance)
      [] node # NoVNode /\ instance = NoInst -> mount(w, parentDom, node, path)
      [] node # NoVNode /\ instance # NoInst
            /\ (instance.node.type # node.type \/ instance.key # node.key) ->
            LogReconcile(w, mount(removeInstance(w, parentDom, instance), parentDom, node, path),
                         parentDom, instance, node, path)
      [] OTHER -> LogReconcile(w, update(w, parentDom, instance, node, path),
                               parentDom, instance, node, path)

\* oldKeyedChildren.set(child.key, child): a Map keeps the first insertion position
MapSet(keyed, child) ==
    IF \E i \in 1..Len(keyed) : keyed[i].key = child.key
    THEN [i \in 1..Len(keyed) |-> IF keyed[i].key = child.key THEN child ELSE keyed[i]]
    ELSE Append(keyed, child)

MapHas(keyed, key) == \E i \in 1..Len(keyed) : keyed[i].key = key

MapGet(keyed, key) == keyed[CHOOSE i \in 1..Len(keyed) : keyed[i].key = key]

MapDelete(keyed, key) == SelectSeq(keyed, LAMBDA c : c.key # key)

RECURSIVE PartitionKeyed(_, _)
PartitionKeyed(oldChildren, i) ==
    IF i = 0 THEN <<>>
    ELSE LET rest == PartitionKeyed(oldChildren, i - 1)
             child == oldChildren[i]
         IN IF child # NoInst /\ child.key # NoKey THEN MapSet(rest, child) ELSE rest

PartitionUnkeyed(oldChildren) == SelectSeq(oldChildren, LAMBDA c : c # NoInst /\ c.key = NoKey)

\* the loop "for (let i = 0; i < newChildren.length; i++)"; i is 1 based here
\* pairs by position every descriptor that found no old instance by key
ReconcileEach_anyPos(w, parentDom, keyed, unkeyed, unkeyedIndex, newChildren, i, path, result) ==
    IF i > Len(newChildren)
    THEN [w |-> w, keyed |-> keyed, unkeyedIndex |-> unkeyedIndex, result |-> result]
    ELSE LET newChild == newChildren[i]
             newKey == newChild.key
             byKey == newKey # NoKey /\ MapHas(keyed, newKey)
             byPos == ~byKey /\ unkeyedIndex < Len(unkeyed)
             oldChild == IF byKey THEN MapGet(keyed, newKey)
                         ELSE IF byPos THEN unkeyed[unkeyedIndex + 1]
                         ELSE NoInst
             keyed1 == IF byKey THEN MapDelete(keyed, newKey) ELSE keyed
             unkeyedIndex1 == IF byPos THEN unkeyedIndex + 1 ELSE unkeyedIndex
             childPath == createChildPath(path, newChild.key, i - 1, newChild.type, newChildren)
             r == reconcile(w, parentDom, oldChild, newChild, childPath)
         IN IF r.w.thrown
            THEN [w |-> r.w, keyed |-> keyed1, unkeyedIndex |-> unkeyedIndex1, result |-> Append(result, r.inst)]
            ELSE ReconcileEach_anyPos(r.w, parentDom, keyed1, unkeyed, unkeyedIndex1, newChildren, i + 1, path,
                               Append(result, r.inst))

ReconcileEach(w, parentDom, keyed, unkeyed, unkeyedIndex, newChildren, i, path, result) ==
    IF i > Len(newChildren)
    THEN [w |-> w, keyed |-> keyed, unkeyedIndex |-> unkeyedIndex, result |-> result]
    ELSE LET newChild == newChildren[i]
             newKey == newChild.key
             byKey == newKey # NoKey /\ MapHas(keyed, newKey)
             byPos == ~byKey /\ newKey = NoKey /\ unkeyedIndex < Len(unkeyed)
             oldChild == IF byKey THEN MapGet(keyed, newKey)
                         ELSE IF byPos THEN unkeyed[unkeyedIndex + 1]
                         ELSE NoInst
             keyed1 == IF byKey THEN MapDelete(keyed, newKey) ELSE keyed
             unkeyedIndex1 == IF byPos THEN unkeyedIndex + 1 ELSE unkeyedIndex
             childPath == createChildPath(path, newChild.key, i - 1, newChild.type, newChildren)
             r == reconcile(w, parentDom, oldChild, newChild, childPath)
         IN IF r.w.thrown
            THEN [w |-> r.w, keyed |-> keyed1, unkeyedIndex |-> unkeyedIndex1, result |-> Append(result, r.inst)]
            ELSE ReconcileEach(r.w, parentDom, keyed1, unkeyed, unkeyedIndex1, newChildren, i + 1, path,
                               Append(result, r.inst))

RECURSIVE RemoveUnused(_, _, _, _)
\* leaves the instances no new child claimed where they are
RemoveUnused_keep(w, parentDom, insts, i) == w

RemoveUnused(w, parentDom, insts, i) ==
    IF i > Len(insts) THEN w
    ELSE RemoveUnused(removeInstance(w, parentDom, insts[i]), parentDom, insts, i + 1)

\* the loop "for (let i = result.length - 1; i >= 0; i--)"; i is 1 based here
RECURSIVE OrderChildren(_, _, _, _, _)
RECURSIVE OrderChildren_staleAnchor(_, _, _, _, _)
OrderChildren_staleAnchor(w, parentDom, result, i, anchor) ==
    IF i = 0 THEN w
    ELSE LET child == result[i]
             firstDom == getFirstDom(child)
             w1 == IF child # NoInst /\ firstDom # NoNode
                      /\ (parentNode(w.dom, firstDom) # parentDom \/ nextSibling(w.dom, firstDom) # anchor)
                   THEN insertInstance(w, parentDom, child, anchor)
                   ELSE w
         IN OrderChildren_staleAnchor(w1, parentDom, result, i - 1, anchor)

OrderChildren(w, parentDom, result, i, anchor) ==
    IF i = 0 THEN w
    ELSE LET child == result[i]
             firstDom == getFirstDom(child)
             w1 == IF child # NoInst /\ firstDom # NoNode
                      /\ (parentNode(w.dom, firstDom) # parentDom \/ nextSibling(w.dom, firstDom) # anchor)
                   THEN insertInstance(w, parentDom, child, anchor)
                   ELSE w
             anchor1 == IF child # NoInst /\ firstDom # NoNode THEN firstDom ELSE anchor
         IN OrderChildren(w1, parentDom, result, i - 1, anchor1)

\* observation of one reconcileChildren call on a non-empty old list
LogChildren(w0, w, parentDom, oldChildren, newChildren, path, result) ==
    IF oldChildren = <<>> THEN w
    ELSE [w EXCEPT !.klog = @ \cup
            {[path |-> path,
              old |-> [i \in 1..Len(oldChildren) |->
                          [id |-> oldChildren[i].id, type |-> oldChildren[i].node.type,
                           key |-> oldChildren[i].key]],
              new |-> [i \in 1..Len(newChildren) |->
                          [type |-> newChildren[i].type, key |-> newChildren[i].key]],
              result |-> [i \in 1..Len(result) |-> result[i].id],
              paths |-> [i \in 1..Len(newChildren) |->
                            createChildPath(path, newChildren[i].key, i - 1, newChildren[i].type, newChildren)],
              kids |-> w.dom[parentDom].kids,
              nodes |-> DomNodesOfList(result, 1),
              childNodes |-> [i \in 1..Len(result) |-> getDomNodes(result[i])],
              oldNodes |-> DomNodesOfList(oldChildren, 1),
              created |-> w.created \ w0.created,
              moves |-> w.muts - w0.muts]}]

reconcileChildren(w, parentDom, oldChildren, newChildren, path) ==
    LET keyed == PartitionKeyed(oldChildren, Len(oldChildren))
        unkeyed == PartitionUnkeyed(oldChildren)
        e == ReconcileEach(w, parentDom, keyed, unkeyed, 0, newChildren, 1, path, <<>>)
        w1 == RemoveUnused(e.w, parentDom, e.keyed, 1)
        w2 == RemoveUnused(w1, parentDom, SubSeq(unkeyed, e.unkeyedIndex + 1, Len(unkeyed)), 1)
        w3 == OrderChildren(w2, parentDom, e.result, Len(e.result), NoNode)
    IN IF e.w.thrown THEN [w |-> e.w, children |-> InPlaceAll(oldChildren, e.result)]
       ELSE [w |-> LogChildren(w, w3, parentDom, oldChildren, newChildren, path, e.result),
             children |-> e.result]

(***************************************************************************)
(* Observation helpers (not part of the program).                          *)
(***************************************************************************)
\* a cleanup function is called: it was outstanding, or this is a second call
InvokeCleanup(w, path, cursor, fn, by) ==
    [w EXCEPT !.clog = Append(@, [ev |-> "cleanup", path |-> path, cursor |-> cursor, fn |-> fn, by |-> by,
                                  queue |-> w.queue]),
              !.live = @ \ {<<path, cursor>>},
              !.dbl = @ \/ <<path, cursor>> \notin w.live]

\* an effect thunk is called and returns ret
InvokeEffect(w, path, cursor, effect, ret) ==
    [w EXCEPT !.clog = Append(@, [ev |-> "effect", path |-> path, cursor |-> cursor, fn |-> effect.fn,
                                  made |-> effect.made, by |-> "flush", queue |-> w.queue]),
              !.rerunLive = @ \/ <<path, cursor>> \in w.live,
              !.live = IF ret # NoFn THEN @ \cup {<<path, cursor>>} ELSE @]

(***************************************************************************)
(* hooks: the effect flusher and the sweep                                 *)
(***************************************************************************)
RECURSIVE RunEffects(_, _, _)
RunEffects(w, effectsToRun, i) ==
    IF i > Len(effectsToRun) THEN w
    ELSE LET path == effectsToRun[i].path
             cursor == effectsToRun[i].cursor
             hasHook == path \in DOMAIN w.state /\ cursor < Len(w.state[path])
                        /\ w.state[path][cursor + 1].kind = "effect"
             hook == w.state[path][cursor + 1]
             w1 == IF hook.cleanup # NoFn
                   THEN RunCleanup(InvokeCleanup(w, path, cursor, hook.cleanup, "flush"), path, hook.cleanup)
                   ELSE w
             ret == EffectReturn(hook.effect.fn)
             w2 == [RunThunk(InvokeEffect(w1, path, cursor, hook.effect, ret), path, cursor, hook)
                       EXCEPT !.state[path][cursor + 1].cleanup = ret]
             w3 == IF hasHook THEN w2 ELSE w
         IN RunEffects(w3, effectsToRun, i + 1)

\* flushEffects running the snapshot from its end
flushEffects_lifo(w0) ==
    LET w == StartPass(w0, "flush")
        effectsToRun == [i \in 1..Len(w.queue) |-> w.queue[Len(w.queue) - i + 1]]
    IN EndPass(RunEffects([w EXCEPT !.queue = <<>>], effectsToRun, 1))

\* flushEffects emptying the queue after the entries have run
flushEffects_clearAfter(w0) ==
    LET w == StartPass(w0, "flush")
        effectsToRun == w.queue
    IN EndPass([RunEffects(w, effectsToRun, 1) EXCEPT !.queue = <<>>])

flushEffects(w0) ==
    LET w == StartPass(w0, "flush")
        effectsToRun == w.queue
    IN EndPass(RunEffects([w EXCEPT !.queue = <<>>], effectsToRun, 1))

RECURSIVE CleanupSlots(_, _, _)
CleanupSlots(w, path, i) ==
    IF i > Len(w.state[path]) THEN w
    ELSE LET hook == w.state[path][i]
             w1 == IF hook.kind = "effect" /\ hook.cleanup # NoFn
                   THEN RunCleanup(InvokeCleanup(w, path, i - 1, hook.cleanup, "sweep"), path, hook.cleanup)
                   ELSE w
         IN CleanupSlots(w1, path, i + 1)

RECURSIVE CleanupPaths(_, _)
CleanupPaths(w, paths) ==
    IF paths = {} THEN w
    ELSE LET p == CHOOSE q \in paths : TRUE
             w1 == CleanupSlots(w, p, 1)
         IN CleanupPaths(w1, paths \ {p})

\* presweep is an observation: the store as the sweep found it
cleanupUnusedHooks(w) ==
    LET pathsToRemove == {p \in DOMAIN w.state : p \notin w.visited}
        w1 == CleanupPaths(w, pathsToRemove)
    IN [w1 EXCEPT !.state = [p \in DOMAIN w.state \ pathsToRemove |-> w1.state[p]],
                  !.cursor = [p \in DOMAIN w.cursor \ pathsToRemove |-> w1.cursor[p]],
                  !.presweep = <<w.state>>]

(***************************************************************************)
(* render                                                                  *)
(***************************************************************************)
RootNode == VNode("App", NoKey, <<>>)

\* render, from "context.root.instance = newInstance": r is the result of
\* reconciling the root
\* render that catches what reconcile throws and goes on
renderResult_catch(r, instance) ==
    LET w1 == [r.w EXCEPT !.root = InPlace(instance, r.inst)]
    IN EndPass(cleanupUnusedHooks(w1))

renderResult(r, instance) ==
    LET w1 == [r.w EXCEPT !.root = r.inst]
        w2 == IF r.inst # NoInst /\ instance = NoInst
              THEN insertInstance(w1, CONTAINER, r.inst, NoNode)
              ELSE w1
    IN IF r.w.thrown THEN EndPass([r.w EXCEPT !.root = InPlace(instance, r.inst)])
       ELSE EndPass(cleanupUnusedHooks(w2))

\* render without the guard on the root container and descriptor
render_unguarded(w0) ==
    LET w == [StartPass(w0, "render") EXCEPT !.visited = {}]
        instance == w.root
    IN renderResult(reconcile(w, CONTAINER, instance, RootNode, "0"), instance)

\* universe.family = "none" : context.root.container and context.root.node
\* are still null (setup has not run)
render(w0) ==
    LET w == [StartPass(w0, "render") EXCEPT !.visited = {}]
        instance == w.root
    IN IF w.universe.family = "none"
       THEN EndPass(w)
       ELSE renderResult(reconcile(w, CONTAINER, instance, RootNode, "0"),
                         instance)

(***************************************************************************)
(* The state machine.                                                      *)
(***************************************************************************)
NoObs ==
    [last |-> "init", rlog |-> {}, hlog |-> <<>>, clog |-> <<>>, live |-> {}, dbl |-> FALSE,
     rerunLive |-> FALSE, muts |-> 0, created |-> {}, thrown |-> FALSE,
     klog |-> {}, lastSet |-> <<>>, slog |-> <<>>, presweep |-> <<>>, ilog |-> <<>>, xlog |-> <<>>, plog |-> <<>>,
     tlog |-> <<>>, thrownAt |-> <<>>, mlog |-> <<>>]

\* the world an action starts in: the program state, and fresh logs
World(last, micro) ==
    [state |-> hooksState, cursor |-> hooksCursor, visited |-> visited, stack |-> componentStack,
     queue |-> effectsQueue, root |-> rootInstance, dom |-> dom, micro |-> micro,
     rsched |-> renderScheduled, fsched |-> flushScheduled, setters |-> setters,
     universe |-> universe, epoch |-> passes,
     used |-> DOMAIN dom \cup InstIds(rootInstance), created |-> {}, muts |-> 0, thrown |-> FALSE,
     rlog |-> {}, klog |-> {}, hlog |-> <<>>, clog |-> <<>>, live |-> obs.live, dbl |-> FALSE, rerunLive |-> FALSE,
     slog |-> <<>>, presweep |-> <<>>, ilog |-> <<>>, xlog |-> <<>>, plog |-> <<>>, active |-> <<>>,
     tlog |-> <<>>, thrownAt |-> <<>>, mlog |-> <<>>,
     last |-> last]

\* nodes no instance can reach any more are dropped from the description of the target
RECURSIVE Reachable(_, _)
Reachable(d, n) == {n} \cup UNION {Reachable(d, d[n].kids[i]) : i \in 1..Len(d[n].kids)}

Commit(w, lastSet) ==
    /\ hooksState' = w.state
    /\ hooksCursor' = w.cursor
    /\ visited' = w.visited
    /\ componentStack' = w.stack
    /\ effectsQueue' = w.queue
    /\ rootInstance' = w.root
    /\ dom' = [n \in Reachable(w.dom, CONTAINER)
                       \cup UNION {Reachable(w.dom, c.dom) : c \in {d \in Insts(w.root) : d.dom # NoNode}}
                 |-> w.dom[n]]
    /\ microtasks' = w.micro
    /\ renderScheduled' = w.rsched
    /\ flushScheduled' = w.fsched
    /\ setters' = w.setters
    /\ universe' = w.universe
    /\ obs' = [last |-> w.last, rlog |-> w.rlog, hlog |-> w.hlog, clog |-> w.clog, live |-> w.live,
               dbl |-> w.dbl, rerunLive |-> w.rerunLive, muts |-> w.muts, created |-> w.created,
               thrown |-> w.thrown, klog |-> w.klog, lastSet |-> lastSet, slog |-> w.slog,
               presweep |-> w.presweep, ilog |-> w.ilog, xlog |-> w.xlog,
               plog |-> w.plog, tlog |-> w.tlog, thrownAt |-> w.thrownAt,
               mlog |-> w.mlog]
    /\ UNCHANGED pathCase

InitWith(u) ==
    /\ hooksState = <<>>
    /\ hooksCursor = <<>>
    /\ visited = {}
    /\ componentStack = <<>>
    /\ effectsQueue = <<>>
    /\ rootInstance = NoInst
    /\ dom = (CONTAINER :> [tag |-> "#container", text |-> "", kids |-> <<>>])
    /\ microtasks = <<"render">>
    /\ renderScheduled = TRUE
    /\ flushScheduled = FALSE
    /\ setters = {}
    /\ universe = u
    /\ passes = 0
    /\ calls = 0
    /\ obs = NoObs

NoPathCase == [variant |-> "none", prev |-> <<>>, prevPaths |-> <<>>, next |-> <<>>, nextPaths |-> <<>>]

Init ==
    /\ \E f \in Universes : \E l \in Layouts(f) : InitWith([family |-> f, initial |-> l])
    /\ pathCase = NoPathCase

\* the microtask that runs render()
RunRender ==
    /\ microtasks # <<>> /\ Head(microtasks) = "render"
    /\ calls' = 0
    /\ \E w \in {render([World("render", Tail(microtasks)) EXCEPT !.rsched = FALSE, !.setters = {}])} :
           Commit(w, [k \in {q \in DOMAIN obs.lastSet : q[1] \in DOMAIN w.state} |-> obs.lastSet[k]])

Render ==
    /\ passes < MaxPasses
    /\ passes' = passes + 1
    /\ RunRender

\* the microtask that runs flushEffects()
Flush ==
    /\ microtasks # <<>> /\ Head(microtasks) = "flush"
    /\ UNCHANGED <<passes, calls>>
    /\ \E w \in {flushEffects([World("flush", Tail(microtasks)) EXCEPT !.fsched = FALSE])} :
           Commit(w, obs.lastSet)

\* the arguments the application passes to the setter s
SetterArgs(s) ==
    IF s.comp = "App" THEN {Value(l) : l \in Layouts(universe.family)}
    ELSE {Value(v) : v \in 0..MaxVal}
         \cup (IF universe.family \in AppUniverses THEN {Updater("inc")} ELSE {})

\* what a step of setter calls leaves in the record of the last values set
SetRecord(w, s) ==
    IF w.state # hooksState
    THEN (<<s.path, s.cursor>> :> [comp |-> s.comp, value |-> w.state[s.path][s.cursor + 1].value])
             @@ obs.lastSet
    ELSE obs.lastSet

\* application code calls a setter it was handed in the last render
CallSetter ==
    \E s \in setters :
        \E a \in SetterArgs(s) :
            /\ calls < MaxCalls
            /\ calls' = calls + 1
            /\ UNCHANGED passes
            /\ s.path \in DOMAIN hooksState
            /\ s.cursor < Len(hooksState[s.path])
            /\ \E w \in {CallSet(World("set", microtasks), s.path, s.cursor, a)} :
                   Commit(w, SetRecord(w, s))

Next == Render \/ Flush \/ CallSetter

Spec == Init /\ [][Next]_vars

(***************************************************************************)
(* The applications whose event handlers, effect thunks, cleanups and      *)
(* component functions call setters ("sched"), and whose components render *)
(* fragments and null ("tree").                                            *)
(***************************************************************************)
RECURSIVE CallSets(_, _, _, _, _)
CallSets(w, path, cursor, batch, i) ==
    IF i > Len(batch) THEN w
    ELSE CallSets(CallSet(w, path, cursor, batch[i]), path, cursor, batch, i + 1)

\* an event handler of a component below App calls the component's setter
\* several times in one turn
HandleEvent ==
    \E s \in setters :
        \E batch \in UNION {[1..k -> SetterArgs(s)] : k \in 2..MaxBatch} :
            /\ s.comp # "App"
            /\ calls < MaxCalls
            /\ calls' = calls + 1
            /\ UNCHANGED passes
            /\ s.path \in DOMAIN hooksState
            /\ s.cursor < Len(hooksState[s.path])
            /\ \E w \in {CallSets(World("set", microtasks), s.path, s.cursor, batch, 1)} :
                   Commit(w, SetRecord(w, s))

AppInit ==
    /\ \E f \in AppUniverses : \E l \in Layouts(f) : InitWith([family |-> f, initial |-> l])
    /\ pathCase = NoPathCase

AppNext == Render \/ Flush \/ CallSetter \/ HandleEvent

AppSpec == AppInit /\ [][AppNext]_vars

(***************************************************************************)
(* The path generator on its own: the sibling lists of two successive      *)
(* renders of one parent, under either of the two generators of the        *)
(* source.                                                                 *)
(***************************************************************************)
PathVariants == {"reconciler", "elements"}

PathItems == {VNode(t, k, <<>>) : t \in {"A", "M1", "M2", "p"}, k \in {NoKey, "1", "2"}}

SiblingLists == {l \in SeqsUpTo(PathItems, MaxKids) : DistinctKeys(l)}

\* the calls "createChildPath(path, newChild.key, i, newChild.type, newChildren)"
\* of one reconcileChildren loop
ChildPaths(variant, path, newChildren) ==
    [i \in 1..Len(newChildren) |->
        IF variant = "elements"
        THEN createChildPath_elements(path, newChildren[i].key, i - 1, newChildren[i].type, newChildren)
        ELSE createChildPath(path, newChildren[i].key, i - 1, newChildren[i].type, newChildren)]

PathInit ==
    /\ InitWith([family |-> "list", initial |-> <<>>])
    /\ \E v \in PathVariants :
           pathCase = [variant |-> v, prev |-> <<>>, prevPaths |-> <<>>, next |-> <<>>, nextPaths |-> <<>>]

\* one more render of the parent with child list l
RenderSiblings ==
    /\ \E l \in SiblingLists :
           pathCase' = [variant |-> pathCase.variant,
                        prev |-> pathCase.next, prevPaths |-> pathCase.nextPaths,
                        next |-> l, nextPaths |-> ChildPaths(pathCase.variant, "0", l)]
    /\ UNCHANGED <<hooksState, hooksCursor, visited, componentStack, effectsQueue, rootInstance,
                   dom, microtasks, renderScheduled, flushScheduled, setters, universe, passes,
                   calls, obs>>

PathNext == RenderSiblings

PathSpec == PathInit /\ [][PathNext]_vars

\* The application "sched" run without a bound on the number of passes (the
\* count of passes saturates); its setters are called with values only.
\* Every queued microtask is run by the host: weak fairness of both.
LiveInit ==
    /\ \E l \in Layouts("live") : InitWith([family |-> "live", initial |-> l])
    /\ pathCase = NoPathCase

LiveRender ==
    /\ passes' = IF passes < MaxPasses THEN passes + 1 ELSE passes
    /\ RunRender

LiveNext == LiveRender \/ Flush \/ CallSetter

\* the microtask at the head of the queue
Due(fn) == microtasks # <<>> /\ Head(microtasks) = fn

\* a step that runs the microtask fn
Runs(fn) == Due(fn) /\ obs'.last = fn

\* LiveRender is enabled exactly when a render is due and Flush when a flush
\* is due, and a step that runs one changes vars; so these are
\* WF_vars(LiveRender) and WF_vars(Flush), written without ENABLED
Fairness ==
    /\ ([]<>(~Due("render"))) \/ []<><<Runs("render")>>_vars
    /\ ([]<>(~Due("flush"))) \/ []<><<Runs("flush")>>_vars

LiveSpec == LiveInit /\ [][LiveNext]_vars /\ Fairness

\* the application with a component that throws at every invocation (X) and
\* one that throws while its state is 1 (Y)
\* The root entry point: stores the container and the root descriptor and
\* hands the first mount to the render scheduler.
Setup ==
    /\ universe.family = "none"
    /\ \E l \in Layouts("keys") :
         \E w \in {enqueueRender([World("setup", microtasks) EXCEPT
                        !.universe = [family |-> "keys", initial |-> l]])} :
            Commit(w, obs.lastSet)
    /\ UNCHANGED <<passes, calls, pathCase>>

\* State after construction, before setup, with a render already requested
\* through the exported enqueueRender.
\* The setters the application keeps of components that are gone.  A setter
\* closes over the slot array of its component (hooks), not over the path:
\* when the sweep deletes the entry of a path, the array lives on in the
\* setters handed out for it.  gen tells the arrays of one path apart.
Retain(w) ==
    [w EXCEPT !.universe.held = @ \cup
        {[path |-> s.path, cursor |-> s.cursor, comp |-> s.comp, gen |-> passes,
          hooks |-> w.presweep[1][s.path]] :
             s \in {t \in setters : t.path \in DOMAIN hooksState /\ t.path \notin DOMAIN w.state}}]

\* resolves the slot array by the path when the setter is called
setStateHeld_byPath(w, s, nextValue) ==
    IF s.path \in DOMAIN w.state /\ s.cursor < Len(w.state[s.path])
    THEN setState(w, s.path, s.cursor, nextValue)
    ELSE w

\* setState of a kept setter: hooks[cursor] is a slot of the array it closed
\* over
setStateHeld(w, s, nextValue) ==
    LET r == setState([w EXCEPT !.state = (s.path :> s.hooks) @@ @], s.path, s.cursor, nextValue)
    IN [r EXCEPT !.state = w.state,
                 !.universe.held = {IF t.path = s.path /\ t.gen = s.gen
                                    THEN [t EXCEPT !.hooks = r.state[s.path]] ELSE t : t \in @}]

HeldRender ==
    /\ passes < MaxPasses
    /\ passes' = passes + 1
    /\ microtasks # <<>> /\ Head(microtasks) = "render"
    /\ calls' = 0
    /\ \E w \in {Retain(render([World("render", Tail(microtasks)) EXCEPT !.rsched = FALSE, !.setters = {}]))} :
           Commit(w, [k \in {q \in DOMAIN obs.lastSet : q[1] \in DOMAIN w.state} |-> obs.lastSet[k]])

\* the application calls a setter it kept
CallHeld ==
    \E s \in universe.held :
        \E v \in 0..MaxVal :
            /\ calls < MaxCalls
            /\ calls' = calls + 1
            /\ UNCHANGED passes
            /\ \E w \in {setStateHeld(World("held", microtasks), s, Value(v))} :
                   Commit(w, obs.lastSet)

StaleInit ==
    /\ \E l \in Layouts("stale") : InitWith([family |-> "stale", initial |-> l, held |-> {}])
    /\ pathCase = NoPathCase

StaleNext == HeldRender \/ Flush \/ CallSetter \/ CallHeld

StaleSpec == StaleInit /\ [][StaleNext]_vars

BareInit ==
    /\ InitWith([family |-> "none", initial |-> <<>>])
    /\ pathCase = NoPathCase

BareNext == Setup \/ Next

BareSpec == BareInit /\ [][BareNext]_vars

ThrowInit ==
    /\ \E l \in Layouts("throw") : InitWith([family |-> "throw", initial |-> l])
    /\ pathCase = NoPathCase

ThrowSpec == ThrowInit /\ [][Next]_vars

\* the application whose child lists are text descriptors; it uses no effect
TextInit ==
    /\ \E l \in Layouts("text") : InitWith([family |-> "text", initial |-> l])
    /\ pathCase = NoPathCase

TextNext == Render \/ CallSetter

TextSpec == TextInit /\ [][TextNext]_vars

(***************************************************************************)
(* Properties.                                                             *)
(***************************************************************************)
SameTypeAndKey(r) == r.oldType = r.newType /\ r.oldKey = r.newKey

\* C2: in every step, an instance of the new tree whose
\* path, type and key are those of an instance of the old tree is that same
\* instance (same id) with the same concrete node.
C2_IdentityByPath ==
    [][\A old \in Insts(rootInstance) : \A new \in Insts(rootInstance') :
          (old.path = new.path /\ old.type = new.type /\ old.key = new.key)
              => (new.id = old.id /\ new.dom = old.dom)]_vars

\* the statement of identity by pairing rather than by path: every reconcile call whose descriptor has the type and the
\* key of the instance it is paired with returns that instance, not a fresh
\* one, with the same concrete node.
C2_IdentityOfPair ==
    \A r \in obs.rlog :
        SameTypeAndKey(r) => (r.newId = r.oldId /\ r.newDom = r.oldDom /\ ~r.fresh)

C2_Witness ==
    /\ passes >= 2
    /\ \E r \in obs.rlog : SameTypeAndKey(r) /\ r.oldType = "A" /\ r.newId = r.oldId
    /\ \E r \in obs.rlog : SameTypeAndKey(r) /\ r.oldType = "p" /\ r.newDom = r.oldDom

\* C4: every reconcile call whose descriptor differs from the paired instance
\* in type or in key returns a newly created instance, none of whose concrete
\* nodes is a node of the old instance, and leaves no node of the old
\* instance attached to the parent.
C4_RemountIsNew ==
    \A r \in obs.rlog :
        ~SameTypeAndKey(r) =>
            /\ r.fresh /\ r.newId # r.oldId
            /\ r.oldNodes \cap r.newNodes = {}
            /\ r.attached = {}
            /\ r.newNodes \subseteq obs.created

C4_Witness ==
    \E r \in obs.rlog : /\ r.oldType = "p" /\ r.newType = "span" /\ r.fresh
                        /\ r.oldNodes # {} /\ r.newNodes # {} /\ r.attached = {}


\* the number of times the cleanup of slot pc was called in the last step
CleanupCalls(log, pc) ==
    Cardinality({i \in 1..Len(log) : /\ log[i].ev = "cleanup"
                                     /\ log[i].path = pc[1] /\ log[i].cursor = pc[2]})

\* C1: in every render pass, a useState call of component c at slot i of path
\* P returns the value the last setter call wrote into that slot for c, as
\* long as P has stayed in the hook store (visited in every pass since).
C1_StatePersistence ==
    \A i \in 1..Len(obs.hlog) :
        LET e == obs.hlog[i]
            k == <<e.path, e.cursor>>
        IN (e.op = "useState" /\ k \in DOMAIN obs.lastSet /\ obs.lastSet[k].comp = e.comp)
               => e.value = obs.lastSet[k].value

\* one step, for the component instances it removes from the tree
C3_Step ==
    \A c \in Insts(rootInstance) :
        (c.kind = "COMPONENT" /\ c.id \notin InstIds(rootInstance'))
            => /\ c.path \notin DOMAIN hooksState'
               /\ \A pc \in OutstandingCleanups(World("render", <<>>), rootInstance) :
                      pc[1] = c.path => CleanupCalls(obs'.clog, pc) = 1

\* C3: in every render pass, each component instance of the old tree that is
\* not in the new tree has its hook-store entry deleted, and each cleanup its
\* effect slots held is called exactly once in that pass.
C3_UnmountCleanup == [][C3_Step]_vars

HostTypes == {"div", "p", "span", "li", "em"}

\* a remount the claims C5 and C6 are about
TagOrKeyChange(r) ==
    \/ r.oldType \in HostTypes /\ r.newType \in HostTypes /\ r.oldType # r.newType
    \/ IsComponent(r.oldType) /\ r.oldType = r.newType /\ r.oldKey # r.newKey

ComponentTypeChange(r) ==
    /\ IsComponent(r.oldType) /\ IsComponent(r.newType) /\ r.oldType # r.newType
    /\ r.oldKey = r.newKey /\ r.oldPath = r.path

\* C5: when a host tag or a component key changes at a position, every hook
\* call made while the new subtree is mounted is a first call at its slot
\* (useState returns the initial value, useEffect enqueues), and every cleanup
\* held by a component of the old subtree is called in that pass.
C5_RemountDiscardsState ==
    \A r \in obs.rlog :
        TagOrKeyChange(r) =>
            /\ \A e \in r.hooks : e.fresh /\ e.asFirst
            /\ \A pc \in r.oldCleanups : CleanupCalls(obs.clog, pc) >= 1

\* C6: when a component instance is replaced by a component of another type
\* at the same path, no hook call of the new component finds a slot of the
\* old one, and every cleanup the old component held is called in that pass.
C6_TypeChangeDiscardsState ==
    \A r \in obs.rlog :
        ComponentTypeChange(r) =>
            /\ \A e \in r.hooks : e.path = r.path => e.fresh
            /\ \A pc \in r.oldCleanups : pc[1] = r.oldPath => CleanupCalls(obs.clog, pc) >= 1


\* "same length and element-wise identical", stated apart from shallowEquals
SameDeps(a, b) ==
    /\ a.t = "arr" /\ b.t = "arr"
    /\ DOMAIN a.v = DOMAIN b.v
    /\ \A i \in DOMAIN a.v : a.v[i] = b.v[i]

\* what C7 says of one useEffect call e
Gated(e) ==
    /\ e.enqueued <=> \/ e.fresh
                      \/ e.deps.t = "undef"
                      \/ (e.prevKind = "effect" /\ e.prevDeps.t = "null")
                      \/ ~SameDeps(e.deps, e.prevDeps)
    /\ (e.prevKind = "effect" /\ e.prevDeps.t = "arr" /\ e.deps.t = "arr"
            /\ Len(e.deps.v) = 1 /\ Len(e.prevDeps.v) = 1)
           => (e.enqueued <=> e.deps.v[1] # e.prevDeps.v[1])

\* one step: the useEffect calls of a render pass, the thunks run by a flush
C7_Step ==
    /\ \A i \in 1..Len(obs'.hlog) : obs'.hlog[i].op = "useEffect" => Gated(obs'.hlog[i])
    /\ \A i \in 1..Len(obs'.clog) :
           obs'.clog[i].ev = "effect" =>
               \E j \in 1..Len(effectsQueue) :
                   /\ effectsQueue[j].path = obs'.clog[i].path
                   /\ effectsQueue[j].cursor = obs'.clog[i].cursor

\* C7: every useEffect call enqueues its slot iff it is the slot's first
\* call, or it has no deps argument, or the stored record has no dependency
\* list, or the new deps are not shallow-equal to the stored ones (for deps
\* [a]: iff a changed); and the flusher runs only thunks of enqueued slots.
C7_DependencyGating == [][C7_Step]_vars

IsEffectCall(e) == e.op = "useEffect" /\ e.prevKind = "effect"

C7_Witness ==
    /\ obs.last = "render"
    /\ \E i, j \in 1..Len(obs.hlog) :
           /\ IsEffectCall(obs.hlog[i]) /\ obs.hlog[i].comp = "A"
           /\ obs.hlog[i].deps # obs.hlog[i].prevDeps /\ obs.hlog[i].enqueued
           /\ IsEffectCall(obs.hlog[j]) /\ obs.hlog[j].comp = "A"
           /\ obs.hlog[j].deps = obs.hlog[j].prevDeps /\ ~obs.hlog[j].enqueued


SlotOf(ev) == <<ev.path, ev.cursor>>

\* one step: what a flush does with the queue it drains
C8_Step ==
    /\ obs'.last = "flush" =>
           /\ \A j \in 1..Len(effectsQueue) :
                  LET q == effectsQueue[j]
                      held == /\ q.path \in DOMAIN hooksState /\ q.cursor < Len(hooksState[q.path])
                              /\ hooksState[q.path][q.cursor + 1].kind = "effect"
                              /\ hooksState[q.path][q.cursor + 1].cleanup # NoFn
                  IN held => \E i \in 1..(Len(obs'.clog) - 1) :
                                 /\ obs'.clog[i].ev = "cleanup" /\ SlotOf(obs'.clog[i]) = <<q.path, q.cursor>>
                                 /\ obs'.clog[i + 1].ev = "effect" /\ SlotOf(obs'.clog[i + 1]) = <<q.path, q.cursor>>
                                 /\ \A k \in 1..(i - 1) : SlotOf(obs'.clog[k]) # <<q.path, q.cursor>>
           /\ \A i \in 1..Len(obs'.clog) :
                  obs'.clog[i].ev = "effect" =>
                      hooksState'[obs'.clog[i].path][obs'.clog[i].cursor + 1].cleanup
                          = EffectReturn(obs'.clog[i].fn)
    /\ ~obs'.rerunLive

\* C8: in one flush, for each drained entry whose slot is an effect slot holding
\* a cleanup, that cleanup is called and the thunk is called right after it;
\* after the flush the slot's cleanup is what the thunk's last run returned.
\* Over any sequence of steps, no thunk is called while the cleanup returned by the
\* previous run of its slot has not been called.
C8_CleanupBeforeRerun == [][C8_Step]_vars

SameMembers(a, b) == Len(a) = Len(b) /\ \A i \in 1..Len(a) : \E j \in 1..Len(b) : a[i] = b[j]

\* a reconcileChildren call on keyed children with distinct keys whose new
\* list is a permutation of the old one, types unchanged
KeyedPermutation(c) ==
    /\ \A i \in 1..Len(c.old) : c.old[i].key # NoKey
    /\ \A i, j \in 1..Len(c.old) : i # j => c.old[i].key # c.old[j].key
    /\ SameMembers([i \in 1..Len(c.old) |-> [type |-> c.old[i].type, key |-> c.old[i].key]], c.new)

\* C9: a reconcileChildren call on a keyed permutation returns, at each
\* position, the old instance of that key, creates nothing, and leaves the
\* parent's child nodes in the order of the new list.
C9_KeyedReorder ==
    \A c \in obs.klog :
        KeyedPermutation(c) =>
            /\ \A i \in 1..Len(c.new) :
                   \E j \in 1..Len(c.old) : c.old[j].key = c.new[i].key /\ c.result[i] = c.old[j].id
            /\ c.created = {}
            /\ c.kids = c.nodes
            /\ SameMembers(c.nodes, c.oldNodes)

C9_Witness ==
    \E c \in obs.klog :
        /\ KeyedPermutation(c) /\ Len(c.old) = MaxKeyed
        /\ c.new[1].key = c.old[MaxKeyed].key /\ c.new[2].key = c.old[1].key
        /\ c.moves > 0 /\ c.kids = c.nodes


\* no two siblings of the last render have the same path
C10_PathUniqueness ==
    \A i, j \in 1..Len(pathCase.next) : i # j => pathCase.nextPaths[i] # pathCase.nextPaths[j]

\* same position, key and type as in the render before: same path
C10_PathStability ==
    \A i \in 1..Len(pathCase.next) :
        (i <= Len(pathCase.prev) /\ pathCase.prev[i].type = pathCase.next[i].type
                                 /\ pathCase.prev[i].key = pathCase.next[i].key)
            => pathCase.prevPaths[i] = pathCase.nextPaths[i]

\* C10: in the sibling list of the last render no two descriptors have the
\* same path, and a descriptor at the same position with the same key and
\* type as in the render before has the same path as before.
C10_PathUniquenessAndStability == C10_PathUniqueness /\ C10_PathStability


\* C11: at most one render pass is pending at any time, and after every
\* setter call that changed its slot exactly one is pending, however many
\* such calls the turn has made; each pending entry is one invocation of the
\* render pass.
C11_RenderCoalescing ==
    /\ Count(microtasks, "render") <= 1
    /\ renderScheduled <=> Count(microtasks, "render") = 1
    /\ \A i \in 1..Len(obs.slog) : obs.slog[i].wrote => obs.slog[i].pending = 1

\* an event handler made two calls that both changed the slot
C11_Witness ==
    /\ obs.last = "set"
    /\ Len(obs.slog) >= 2
    /\ obs.slog[1].wrote /\ obs.slog[2].wrote
    /\ obs.slog[1].queued = 1 /\ obs.slog[2].queued = 0
    /\ Count(microtasks, "render") = 1


\* one step, for the setter calls and the useState reads it makes
C12_Step ==
    /\ \A i \in 1..Len(obs'.slog) :
           LET c == obs'.slog[i]
           IN /\ c.arg.fn = "value" => c.next = StateSlot(c.arg.v)
              /\ (c.arg.fn = "inc" /\ c.prev.kind = "state") => c.next = StateSlot(c.prev.value + 1)
              /\ (i > 1 /\ obs'.slog[i - 1].path = c.path /\ obs'.slog[i - 1].cursor = c.cursor)
                     => c.prev = obs'.slog[i - 1].next
    /\ (obs'.last = "set" /\ \A i \in 1..Len(obs'.slog) : obs'.slog[i].arg.fn = "inc")
           => LET c == obs'.slog[1]
              IN hooksState'[c.path][c.cursor + 1] = StateSlot(hooksState[c.path][c.cursor + 1].value + Len(obs'.slog))
    /\ obs'.last = "set" => passes' = passes /\ rootInstance' = rootInstance
    /\ obs'.last = "render"
           => \A i \in 1..Len(obs'.hlog) :
                  LET e == obs'.hlog[i]
                  IN (e.op = "useState" /\ ~e.fresh /\ e.path \in DOMAIN hooksState)
                         => StateSlot(e.value) = hooksState[e.path][e.cursor + 1]

\* C12: every setter call leaves its slot holding the value it was given, or
\* the updater's result on the value the slot held when the call was made, so
\* k updater calls of one turn add up; no pass runs in the setter call, and
\* the useState calls of the next pass return what the slots hold.
C12_ImmediateWrites == [][C12_Step]_vars

\* the second pass reads 2 in F: the slot was 0 and one handler called the
\* updater twice
C12_Witness ==
    /\ passes = 2 /\ obs.last = "render"
    /\ \E i \in 1..Len(obs.hlog) :
           obs.hlog[i].op = "useState" /\ obs.hlog[i].comp = "F" /\ obs.hlog[i].value = 2


\* the next value of the setter call c is the value its slot holds
Unchanged(c) ==
    /\ c.prev.kind = "state"
    /\ c.arg.fn = "value"
    /\ c.prev.value = c.arg.v

\* C13: a setter call whose next value is the stored value changes nothing
\* in the hook store and queues no render pass; a call queues a pass only if
\* it changed its slot, and a call that changed its slot leaves a pass
\* scheduled.
C13_NoOpOnSameValue ==
    \A i \in 1..Len(obs.slog) :
        LET c == obs.slog[i]
        IN /\ Unchanged(c) => (~c.wrote /\ c.next = c.prev /\ c.queued = 0)
           /\ c.queued # 0 => (c.wrote /\ c.next # c.prev /\ ~Unchanged(c))
           /\ c.wrote => (~Unchanged(c) /\ c.pending = 1)

\* a setter was called with the value of its slot while no pass was pending
C13_Witness ==
    /\ obs.last = "set"
    /\ Len(obs.slog) = 1 /\ obs.slog[1].path # "0"
    /\ Unchanged(obs.slog[1]) /\ obs.slog[1].prev.value = 1
    /\ Count(microtasks, "render") = 0


\* the slots of the effect thunks called in a step, in the order of the calls
ThunkCalls(log) ==
    LET sel == SelectSeq(log, LAMBDA e : e.ev = "effect")
    IN [i \in 1..Len(sel) |-> [path |-> sel[i].path, cursor |-> sel[i].cursor]]

\* the slots the useEffect calls of a pass enqueued, in the order of the calls
Enqueued(log) ==
    LET sel == SelectSeq(log, LAMBDA e : e.op = "useEffect" /\ e.enqueued)
    IN [i \in 1..Len(sel) |-> [path |-> sel[i].path, cursor |-> sel[i].cursor]]

\* the entries of the queue whose slot holds an effect record
Runnable(queue, state) ==
    SelectSeq(queue, LAMBDA q : /\ q.path \in DOMAIN state
                                /\ q.cursor < Len(state[q.path])
                                /\ state[q.path][q.cursor + 1].kind = "effect")

\* one step: a render pass calls no thunk and leaves what it enqueued in the
\* queue with a flush scheduled; a flush calls the thunks in queue order
C14_Step ==
    /\ obs'.last = "render"
           => /\ ThunkCalls(obs'.clog) = <<>>
              /\ effectsQueue' = effectsQueue \o Enqueued(obs'.hlog)
              /\ effectsQueue' # <<>> => Count(microtasks', "flush") = 1
    /\ obs'.last = "flush"
           => /\ ThunkCalls(obs'.clog) = Runnable(effectsQueue, hooksState)
              /\ obs'.hlog = <<>> /\ rootInstance' = rootInstance
    /\ obs'.last = "set" => ThunkCalls(obs'.clog) = <<>>

\* C14: no effect thunk is called in a render pass; the slots a pass
\* enqueues are in the queue, not yet run, when the pass has committed, with
\* a flush scheduled; a flush calls the thunks of the queued effect slots in
\* the order of the queue and invokes no component.
C14_DeferredFifo == [][C14_Step]_vars

\* a flush ran the thunk of A and then the thunk of E, from two paths
C14_Witness ==
    /\ obs.last = "flush"
    /\ \E i, j \in 1..Len(obs.clog) :
           /\ i < j
           /\ obs.clog[i].ev = "effect" /\ obs.clog[i].fn = "fxA"
           /\ obs.clog[j].ev = "effect" /\ obs.clog[j].fn = "fxE"
           /\ obs.clog[i].path # obs.clog[j].path


\* the slots whose thunk enqueued its slot again while the flush was running
Rearmed(log) ==
    LET sel == SelectSeq(log, LAMBDA e : e.ev = "effect" /\ e.fn = "fxQ")
    IN [i \in 1..Len(sel) |-> [path |-> sel[i].path, cursor |-> sel[i].cursor]]

IsPrefix(a, b) == Len(a) <= Len(b) /\ a = SubSeq(b, 1, Len(a))

\* one flush
C15_Step ==
    obs'.last = "flush"
        => /\ ThunkCalls(obs'.clog) = Runnable(effectsQueue, hooksState)
           /\ \A i \in 1..Len(obs'.clog) : IsPrefix(obs'.clog[i].queue, effectsQueue')
           /\ IsPrefix(effectsQueue', Rearmed(obs'.clog))
           /\ effectsQueue' # <<>> => Count(microtasks', "flush") = 1

\* C15: a flush calls the thunks of the entries the queue held when it
\* started and of no other; at each cleanup and thunk call the queue holds
\* only entries enqueued since the flush started; what was enqueued during
\* the flush is in the queue when the flush ends, with a flush scheduled, so
\* that the next flush runs it.
C15_SnapshotThenClear == [][C15_Step]_vars

\* the thunk of Q enqueued its slot during the first flush, the second pass
\* enqueued it again, and the second flush has run both entries
C15_Witness ==
    /\ obs.last = "flush"
    /\ passes = 2
    /\ \E i, j \in 1..Len(obs.clog) :
           /\ i < j
           /\ obs.clog[i].ev = "effect" /\ obs.clog[i].fn = "fxQ"
           /\ obs.clog[j].ev = "effect" /\ obs.clog[j].fn = "fxQ"
           /\ obs.clog[i].path = obs.clog[j].path
    /\ effectsQueue = <<>>


\* the cleanups the sweep called, as slots
SweepCalls(log) == {<<log[i].path, log[i].cursor>> : i \in {j \in 1..Len(log) : log[j].by = "sweep"}}

\* the effect slots of path p that hold a cleanup
HeldCleanups(state, p) ==
    {<<p, i - 1>> : i \in {j \in 1..Len(state[p]) : state[p][j].kind = "effect" /\ state[p][j].cleanup # NoFn}}

\* C16: after a render pass that ran to completion, the hook store has no
\* slot entry and no cursor entry for a path the pass did not visit; the
\* cleanups held by the slots of each deleted path were called by the sweep;
\* and the slots of the visited paths are as the sweep found them.
C16_Sweep ==
    (obs.last = "render" /\ ~obs.thrown)
        => /\ DOMAIN hooksState \subseteq visited
           /\ DOMAIN hooksCursor \subseteq visited
           /\ \A p \in DOMAIN obs.presweep[1] :
                  IF p \in visited THEN p \in DOMAIN hooksState /\ hooksState[p] = obs.presweep[1][p]
                  ELSE p \notin DOMAIN hooksState
                       /\ HeldCleanups(obs.presweep[1], p) \subseteq SweepCalls(obs.clog)


\* the hook calls of invocation c, in call order
HookCalls(c) == SubSeq(obs.hlog, c.from + 1, c.to)

\* C17: in every component invocation the cursor of the path is 0 at the
\* start and k after its k hook calls, the j-th hook call finds cursor j - 1
\* and appends a slot exactly when that cursor is not below the length of
\* the slot list (and never otherwise); and from one step to the next the
\* slot list of a path that stays in the store does not get shorter.
C17_Step ==
    /\ \A i \in 1..Len(obs'.ilog) :
           LET c == obs'.ilog[i]
               k == c.to - c.from
           IN /\ c.start = 0
              /\ c.end = k
              /\ \A j \in 1..k :
                     LET h == obs'.hlog[c.from + j]
                     IN /\ h.path = c.path
                        /\ h.cursor = j - 1
                        /\ h.fresh <=> h.cursor >= h.len
                        /\ h.lenAfter > h.len => h.fresh /\ h.lenAfter = h.len + 1
                        /\ ~h.fresh => h.lenAfter = h.len
    /\ \A p \in DOMAIN hooksState \cap DOMAIN hooksState' :
           Len(hooksState'[p]) >= Len(hooksState[p])

C17_CursorDiscipline == [][C17_Step]_vars

\* an update pass invoked a component that calls two hooks on slots it
\* already had, and a mount in the same pass appended slots
C17_Witness ==
    /\ obs.last = "render" /\ passes >= 2
    /\ \E i \in 1..Len(obs.ilog) :
           /\ obs.ilog[i].to - obs.ilog[i].from = 2
           /\ obs.ilog[i].end = 2
           /\ \A h \in {HookCalls(obs.ilog[i])[j] : j \in 1..2} : ~h.fresh
    /\ \E j \in 1..Len(obs.hlog) : obs.hlog[j].fresh /\ obs.hlog[j].lenAfter = obs.hlog[j].len + 1


\* the component instances of a subtree whose child is null
RECURSIVE NullChildren(_)
NullChildren(inst) ==
    IF inst = NoInst THEN {}
    ELSE (IF inst.kind = "COMPONENT" /\ inst.children = <<NoInst>> THEN {inst.id} ELSE {})
         \cup UNION {NullChildren(inst.children[i]) : i \in 1..Len(inst.children)}

\* C18: every call of reconcile with a null descriptor leaves none of the
\* nodes of the old instance (collected through fragment and component
\* instances) attached, and the caller holds null as the result; when the
\* old instance is null too the call changes nothing.
C18_RemovalDispatch ==
    /\ \A i \in 1..Len(obs.xlog) :
           /\ obs.xlog[i].attached = {}
           /\ Range(obs.xlog[i].nodes) \cap DOMAIN dom = {}
           /\ obs.xlog[i].kind = "none" => ~obs.xlog[i].changed
    /\ (obs.last = "render" /\ ~obs.thrown)
           => Cardinality(NullChildren(rootInstance)) = Len(obs.xlog)

\* a component that rendered a fragment of two nodes renders null: both
\* nodes were removed in this pass
C18_Witness ==
    /\ obs.last = "render"
    /\ \E i \in 1..Len(obs.xlog) :
           /\ obs.xlog[i].kind = "COMPONENT"
           /\ Len(obs.xlog[i].nodes) = 2
           /\ obs.xlog[i].changed
    /\ obs.muts >= 2


\* C19: every pass starts while no pass is executing: a step of the render
\* microtask starts one render pass, a step of the flush microtask one
\* flush, a step of setter calls none.  During a setter call, wherever it
\* is made, no pass starts, no component function is invoked, no hook is
\* called and the instance tree and the target stay as they are; a call
\* that wrote leaves a pass scheduled.
C19_NoInterleaving ==
    /\ \A i \in 1..Len(obs.plog) : obs.plog[i].inside = <<>>
    /\ obs.last = "render" => obs.plog = <<[op |-> "render", inside |-> <<>>]>>
    /\ obs.last = "flush" => obs.plog = <<[op |-> "flush", inside |-> <<>>]>>
    /\ obs.last = "set" => obs.plog = <<>>
    /\ \A i \in 1..Len(obs.slog) :
           /\ obs.slog[i].started = 0
           /\ obs.slog[i].invoked = 0
           /\ obs.slog[i].hookCalls = 0
           /\ obs.slog[i].tree
           /\ obs.slog[i].wrote => obs.slog[i].pending = 1 /\ renderScheduled

\* a flush in which a cleanup called its setter and wrote, while a component
\* that calls its setter inside its function is mounted
C19_Witness ==
    /\ obs.last = "flush"
    /\ \E i \in 1..Len(obs.slog) :
           /\ obs.slog[i].in = "flush" /\ obs.slog[i].wrote
           /\ obs.slog[i].arg = Value(0)
    /\ \E c \in Insts(rootInstance) : c.type = "R"
    /\ \E s \in setters : s.comp = "R" /\ hooksState[s.path][s.cursor + 1] = StateSlot(1)


\* the descriptor tree a pass rendered: the descriptor of every instance,
\* with the descriptors the components returned below them
RECURSIVE DescTree(_)
DescTree(inst) ==
    IF inst = NoInst THEN <<>>
    ELSE <<inst.node, [i \in 1..Len(inst.children) |-> DescTree(inst.children[i])]>>

\* C20: a render pass that renders the descriptor tree of the previous pass
\* creates no node, inserts, moves and removes none and writes no
\* attribute: the target is left as it was, with zero mutations.
C20_Step ==
    (/\ obs'.last = "render" /\ passes' = passes + 1
     /\ rootInstance # NoInst
     /\ DescTree(rootInstance') = DescTree(rootInstance))
        => /\ obs'.muts = 0
           /\ obs'.created = {}
           /\ dom' = dom

C20_NoOpRender == [][C20_Step]_vars


C21_Witness ==
    \E i \in 1..Len(obs.tlog) :
        /\ obs.tlog[i].old = "a" /\ obs.tlog[i].new = "1"
        /\ obs.tlog[i].written = 1 /\ obs.tlog[i].after = "1"


\* C22: a scheduled render pass is run and a scheduled effect flush is run
\* (a scheduled flag stays set until its microtask runs, so a flag that is
\* set again and again means the microtask runs again and again), and a
\* pending-effects queue that holds entries is drained by a flush.
C22_ScheduledWorkRuns ==
    /\ ([]<>renderScheduled) => []<><<Runs("render")>>_vars
    /\ ([]<>flushScheduled) => []<><<Runs("flush")>>_vars
    /\ ([]<>(effectsQueue # <<>>)) => []<><<Runs("flush") /\ effectsQueue # <<>>>>_vars
    /\ renderScheduled ~> (obs.last = "render")
    /\ flushScheduled ~> (obs.last = "flush")

\* a flush has run the effects enqueued by the passes before it and nothing
\* is scheduled any more
C22_Witness ==
    /\ obs.last = "flush" /\ passes >= 2
    /\ \E i \in 1..Len(obs.clog) : obs.clog[i].ev = "effect"
    /\ effectsQueue = <<>> /\ microtasks = <<>>
    /\ ~renderScheduled /\ ~flushScheduled


\* the target as far as the container and the instances reach it
Kept(d, root) ==
    [n \in Reachable(d, CONTAINER)
           \cup UNION {Reachable(d, c.dom) : c \in {e \in Insts(root) : e.dom # NoNode}} |-> d[n]]

\* C23: a pass in which a component function throws ends with the exception
\* outside render: the root instance reference is the one before the pass,
\* the sweep has not run, nothing is called after the throw, and the hook
\* store, the pending-effects queue and the target are as they were at the
\* throw (nothing is rolled back); only the component stack is unwound.
C23_Step ==
    (obs'.last = "render" /\ obs'.thrownAt # <<>>)
        => /\ obs'.thrown
           /\ IF rootInstance = NoInst THEN rootInstance' = NoInst
              ELSE rootInstance' # NoInst /\ rootInstance'.id = rootInstance.id
           /\ obs'.presweep = <<>>
           /\ \A i \in 1..Len(obs'.clog) : obs'.clog[i].by # "sweep"
           /\ hooksState' = obs'.thrownAt[1].state
           /\ hooksCursor' = obs'.thrownAt[1].cursor
           /\ visited' = obs'.thrownAt[1].visited
           /\ effectsQueue' = obs'.thrownAt[1].queue
           /\ dom' = Kept(obs'.thrownAt[1].dom, rootInstance')
           /\ componentStack' = <<>>

C23_ExceptionsPropagate == [][C23_Step]_vars

\* a pass was aborted after it had removed a node from the target and
\* written the hook store: the store holds a path the aborted pass added,
\* which no sweep took away
C23_Witness ==
    /\ obs.last = "render" /\ obs.thrown /\ passes >= 2
    /\ obs.muts > 0
    /\ rootInstance # NoInst
    /\ \E p \in DOMAIN hooksState : \A c \in Insts(rootInstance) : c.path # p

(***************************************************************************)
(* C24: a render pass that runs while no container or no root descriptor   *)
(* is set raises no error, reconciles nothing (no component is invoked, no *)
(* pairing is made, no node is created or moved, no cleanup runs, no       *)
(* effect is queued) and leaves the root instance, the hook store and the  *)
(* target as they were.                                                    *)
(***************************************************************************)
C24_Step ==
    (obs'.last = "render" /\ universe.family = "none")
        => /\ ~obs'.thrown
           /\ obs'.rlog = {} /\ obs'.ilog = <<>> /\ obs'.hlog = <<>>
           /\ obs'.klog = NoObs.klog /\ obs'.clog = <<>>
           /\ obs'.muts = 0 /\ obs'.created = {}
           /\ rootInstance' = rootInstance
           /\ hooksState' = hooksState
           /\ hooksCursor' = hooksCursor
           /\ effectsQueue' = effectsQueue
           /\ dom' = dom
           /\ microtasks' = Tail(microtasks)
           /\ ~flushScheduled'

C24_MissingTargetNoOp == [][C24_Step]_vars

\* the requested render has run before setup stored a container
C24_Witness ==
    /\ obs.last = "render" /\ universe.family = "none" /\ passes = 1
    /\ rootInstance = NoInst /\ ~renderScheduled

(***************************************************************************)
(* C25: after reconcileChildren returns, the concrete nodes of the         *)
(* returned children stand in the target in the order of the returned      *)
(* list, each child's nodes contiguous and in their own order, whether the *)
(* child was mounted, reused or moved; and no node of an old child that    *)
(* was not carried over is left in the target.                             *)
(***************************************************************************)
Contiguous(kids, part) ==
    part = <<>> \/ \E k \in 1..Len(kids) :
                      k + Len(part) - 1 <= Len(kids) /\ SubSeq(kids, k, k + Len(part) - 1) = part

C25_ChildOrder ==
    \A c \in obs.klog :
        /\ SelectSeq(c.kids, LAMBDA n : n \in Range(c.nodes)) = c.nodes
        /\ \A i \in 1..Len(c.childNodes) : Contiguous(c.kids, c.childNodes[i])
        /\ \A n \in Range(c.oldNodes) \ Range(c.nodes) : n \notin Range(c.kids)

\* one call that mounted a child, moved a reused one and removed another
C25_Witness ==
    \E c \in obs.klog :
        /\ c.created # {} /\ c.moves > 0
        /\ Range(c.oldNodes) \ Range(c.nodes) # {}
        /\ \E n \in Range(c.oldNodes) \cap Range(c.nodes) :
               IndexOf(c.oldNodes, n) # IndexOf(c.nodes, n)
        /\ \E i \in 1..Len(c.childNodes) : Len(c.childNodes[i]) > 1

(***************************************************************************)
(* C26: in reconcileChildren every old instance is paired with at most one *)
(* new descriptor; a keyed descriptor is paired only with the old instance *)
(* of the same key; the j-th unkeyed descriptor is paired with the j-th    *)
(* unkeyed old instance; a keyed descriptor whose key no old instance      *)
(* carries is mounted fresh and takes no unkeyed old instance.             *)
(***************************************************************************)
\* the old instances handed to reconcile together with the i-th descriptor
PairedWith(c, i) ==
    {r.oldId : r \in {q \in obs.rlog : q.path = c.paths[i] /\ q.newType = c.new[i].type
                                          /\ q.newKey = c.new[i].key}}

UnkeyedBefore(l, i) == Cardinality({k \in 1..(i - 1) : l[k].key = NoKey})

C26_ChildMatching ==
    \A c \in obs.klog :
        LET oldIds == {c.old[j].id : j \in 1..Len(c.old)}
        IN /\ \A i \in 1..Len(c.new) :
                  /\ PairedWith(c, i) \subseteq oldIds
                  /\ IF c.new[i].key # NoKey
                     THEN /\ PairedWith(c, i) =
                                {c.old[j].id : j \in {k \in 1..Len(c.old) : c.old[k].key = c.new[i].key}}
                          /\ PairedWith(c, i) = {} => c.result[i] \notin oldIds
                     ELSE PairedWith(c, i) =
                                {c.old[j].id : j \in {k \in 1..Len(c.old) :
                                     /\ c.old[k].key = NoKey
                                     /\ UnkeyedBefore(c.old, k) = UnkeyedBefore(c.new, i)}}
           /\ \A i, j \in 1..Len(c.new) : i # j => PairedWith(c, i) \cap PairedWith(c, j) = {}

\* one call paired an unkeyed descriptor by rank, not by position, and
\* mounted a keyed descriptor although an unkeyed old instance was left
\* without a partner
C26_Witness ==
    \E c \in obs.klog :
        /\ \E i \in 1..Len(c.new), j \in 1..Len(c.old) :
               i # j /\ c.new[i].key = NoKey /\ PairedWith(c, i) = {c.old[j].id}
        /\ \E i \in 1..Len(c.new) : c.new[i].key # NoKey /\ PairedWith(c, i) = {}
        /\ UnkeyedBefore(c.old, Len(c.old) + 1) > UnkeyedBefore(c.new, Len(c.new) + 1)

(***************************************************************************)
(* C27: the path of an unkeyed component child is decided by the number of *)
(* earlier siblings of the same function type and not by its raw index:    *)
(* across two renders of one parent, two unkeyed children of one function  *)
(* type have the same path exactly when they have the same number of       *)
(* earlier siblings of that type, whatever siblings of other types stand   *)
(* before them.  A keyed child gets parent + ".k" + key at every index and *)
(* an unkeyed host child gets parent + ".c" + its raw index.               *)
(***************************************************************************)
SameTypeBefore(l, i) == Cardinality({k \in 1..(i - 1) : l[k].type = l[i].type})

C27_StableComponentIndex ==
    /\ \A i \in 1..Len(pathCase.prev), j \in 1..Len(pathCase.next) :
           (/\ pathCase.prev[i].key = NoKey /\ pathCase.next[j].key = NoKey
            /\ IsComponent(pathCase.prev[i].type)
            /\ pathCase.prev[i].type = pathCase.next[j].type)
               => ((pathCase.prevPaths[i] = pathCase.nextPaths[j])
                     <=> (SameTypeBefore(pathCase.prev, i) = SameTypeBefore(pathCase.next, j)))
    /\ \A j \in 1..Len(pathCase.next) :
           /\ pathCase.next[j].key # NoKey
                 => pathCase.nextPaths[j] = "0" \o ".k" \o pathCase.next[j].key
           /\ (pathCase.next[j].key = NoKey /\ ~IsComponent(pathCase.next[j].type))
                 => pathCase.nextPaths[j] = "0" \o ".c" \o ToString(j - 1)

\* a host sibling was put before an unkeyed component, which kept its path
C27_Witness ==
    /\ Len(pathCase.prev) = 1 /\ Len(pathCase.next) = 2
    /\ pathCase.prev[1].key = NoKey /\ IsComponent(pathCase.prev[1].type)
    /\ pathCase.next[2] = pathCase.prev[1]
    /\ ~IsComponent(pathCase.next[1].type) /\ pathCase.next[1].key = NoKey
    /\ pathCase.nextPaths[2] = pathCase.prevPaths[1]
    /\ pathCase.nextPaths[1] # pathCase.nextPaths[2]

(***************************************************************************)
(* C28: every useEffect call replaces its slot with a record holding the   *)
(* new deps and the thunk of this render and carrying the previous         *)
(* record's cleanup forward, whether or not the effect is queued.  Hence a *)
(* cleanup an effect run returned is still in the slot, and is the one     *)
(* invoked, when the slot is removed after renders with equal deps; and an *)
(* effect flushed after a later render runs the thunk of the latest        *)
(* render.                                                                 *)
(***************************************************************************)
EffectCalls(log) == {i \in 1..Len(log) : log[i].op = "useEffect"}

C28_Step ==
    /\ obs'.last = "render" =>
          /\ \A i \in EffectCalls(obs'.hlog) :
                 LET h == obs'.hlog[i]
                 IN /\ h.stored.kind = "effect"
                    /\ h.stored.deps = (IF h.deps.t = "undef" THEN NullDeps ELSE h.deps)
                    /\ h.stored.effect = h.effect /\ h.effect.made = passes
                    /\ h.stored.cleanup = h.prevCleanup
          /\ \A i \in 1..Len(obs'.clog) :
                 obs'.clog[i].ev = "cleanup" =>
                     /\ obs'.clog[i].path \in DOMAIN hooksState
                     /\ obs'.clog[i].fn = hooksState[obs'.clog[i].path][obs'.clog[i].cursor + 1].cleanup
          /\ \A s \in obs.live :
                 (/\ s[1] \in DOMAIN hooksState /\ s[1] \notin DOMAIN hooksState'
                  /\ s[2] < Len(hooksState[s[1]])
                  /\ hooksState[s[1]][s[2] + 1].kind = "effect")
                     => \E i \in 1..Len(obs'.clog) :
                            /\ obs'.clog[i].ev = "cleanup"
                            /\ obs'.clog[i].path = s[1] /\ obs'.clog[i].cursor = s[2]
    /\ obs'.last = "flush" =>
          \A i \in 1..Len(obs'.clog) :
              obs'.clog[i].ev = "effect" => obs'.clog[i].made = passes - 1

C28_EffectSlotRefreshed == [][C28_Step]_vars

\* a render found equal deps at a slot whose effect, queued by an earlier
\* render, had not been flushed yet: the slot got the thunk of this render
C28_Witness ==
    /\ obs.last = "render"
    /\ \E i \in EffectCalls(obs.hlog) :
           LET h == obs.hlog[i]
           IN /\ ~h.enqueued /\ h.prevKind = "effect"
              /\ h.stored.effect.made > h.prevEffect.made
              /\ \E k \in 1..Len(effectsQueue) :
                     effectsQueue[k].path = h.path /\ effectsQueue[k].cursor = h.cursor

(***************************************************************************)
(* C29: across the invocations of a component at one path, useMemo calls   *)
(* factory exactly when the slot is new or the equality function           *)
(* (shallowEquals for useMemo, deepEquals for useDeepMemo) reports the     *)
(* stored deps and the new deps unequal, and then returns what factory     *)
(* returned; otherwise it returns the value computed before and leaves the *)
(* stored deps and value alone.                                            *)
(***************************************************************************)
MemoEqual(e) ==
    IF e.comp = "D" THEN deepEquals(e.prevDeps, e.deps) ELSE shallowEquals(e.prevDeps, e.deps)

C29_Step ==
    \A i \in 1..Len(obs'.mlog) :
        LET e == obs'.mlog[i]
            was == IF e.path \in DOMAIN hooksState /\ e.cursor < Len(hooksState[e.path])
                   THEN hooksState[e.path][e.cursor + 1].value ELSE NullRef
            now == hooksState'[e.path][e.cursor + 1].value
        IN /\ e.first <=> ~(e.path \in DOMAIN hooksState /\ e.cursor < Len(hooksState[e.path]))
           /\ ~e.first => (e.prevDeps = was.deps /\ e.prevValue = was.value)
           /\ e.called <=> (e.first \/ ~MemoEqual(e))
           /\ e.called => (e.returned = e.factory /\ e.returned.made = passes)
           /\ ~e.called => (e.returned = e.prevValue /\ e.returned.made < passes)
           /\ e.path \in DOMAIN hooksState' =>
                  (now.set /\ now.value = e.returned
                   /\ now.deps = (IF e.called THEN e.deps ELSE e.prevDeps))

C29_MemoCache == [][C29_Step]_vars

\* one pass in which useMemo found equal numbers and useDeepMemo found a new
\* object with equal content: both returned the value of an earlier pass;
\* and the pass before had recomputed the value of useMemo
C29_Witness ==
    /\ obs.last = "render" /\ passes = MaxPasses
    /\ \E i, j \in 1..Len(obs.mlog) :
           /\ obs.mlog[i].comp = "U" /\ ~obs.mlog[i].called
           /\ obs.mlog[i].returned.made = passes - 2 /\ obs.mlog[i].returned.made > 0
           /\ obs.mlog[j].comp = "D" /\ ~obs.mlog[j].called
           /\ obs.mlog[j].prevDeps # obs.mlog[j].deps

(***************************************************************************)
(* C30: whenever an existing component instance is reused for a new        *)
(* descriptor of the same type and key, the path of that update is the     *)
(* path under which the instance was invoked before, so the instance keeps *)
(* its hook slots; also when a keyed sibling of the same function type is  *)
(* put before an unkeyed component.                                        *)
(***************************************************************************)
C30_HookStateFollowsInstance ==
    \A r \in obs.rlog :
        (IsComponent(r.newType) /\ SameTypeAndKey(r) /\ r.newId = r.oldId)
            => r.path = r.oldPath

(***************************************************************************)
(* C31: in a render pass that unmounts a component and also queues an      *)
(* effect of another component, every cleanup the unmounted component's    *)
(* effects hold is invoked by the sweep of that pass, hence before the     *)
(* flusher runs any thunk the pass queued: the pass itself runs no thunk   *)
(* and what it queued is still queued when it ends.                        *)
(***************************************************************************)
QueuedBy(log) == {<<log[i].path, log[i].cursor>> : i \in {j \in EffectCalls(log) : log[j].enqueued}}

Unmounted(old, new) == {c \in Insts(old) : c.kind = "COMPONENT" /\ c.id \notin InstIds(new)}

C31_Step ==
    (/\ obs'.last = "render" /\ ~obs'.thrown
     /\ Unmounted(rootInstance, rootInstance') # {}
     /\ QueuedBy(obs'.hlog) # {})
        => /\ \A c \in Unmounted(rootInstance, rootInstance') :
                  c.path \in DOMAIN hooksState =>
                      \A pc \in HeldCleanups(hooksState, c.path) :
                          \E i \in 1..Len(obs'.clog) :
                              /\ obs'.clog[i].ev = "cleanup" /\ obs'.clog[i].by = "sweep"
                              /\ obs'.clog[i].path = pc[1] /\ obs'.clog[i].cursor = pc[2]
           /\ \A i \in 1..Len(obs'.clog) : obs'.clog[i].ev # "effect"
           /\ \A q \in QueuedBy(obs'.hlog) :
                  \E k \in 1..Len(effectsQueue') :
                      effectsQueue'[k].path = q[1] /\ effectsQueue'[k].cursor = q[2]

C31_CleanupsBeforeNewEffects == [][C31_Step]_vars

(***************************************************************************)
(* C32: the component stack is balanced.  It is empty after every render   *)
(* pass, completed or aborted by a throw of a component function or of a   *)
(* nested mount; while a component function runs the stack holds the paths *)
(* of the components enclosing it followed by its own path, so the current *)
(* path is its own path and every hook call of the invocation is made at   *)
(* that path.                                                              *)
(***************************************************************************)
RECURSIVE Chains(_, _)
\* every component instance of a tree with the paths of its enclosing
\* components and its own
Chains(inst, chain) ==
    IF inst = NoInst THEN {}
    ELSE LET own == IF inst.kind = "COMPONENT" THEN Append(chain, inst.at) ELSE chain
         IN (IF inst.kind = "COMPONENT"
             THEN {[path |-> inst.at, comp |-> inst.node.type, stack |-> own]} ELSE {})
            \cup UNION {Chains(inst.children[i], own) : i \in 1..Len(inst.children)}

C32_StackBalanced ==
    /\ componentStack = <<>>
    /\ \A i \in 1..Len(obs.ilog) :
           LET e == obs.ilog[i]
           IN /\ e.stack # <<>> /\ e.stack[Len(e.stack)] = e.path
              /\ \A k, l \in 1..Len(e.stack) : k # l => e.stack[k] # e.stack[l]
              /\ \A h \in (e.from + 1)..e.to : obs.hlog[h].path = e.path
    /\ (obs.last = "render" /\ ~obs.thrown)
          => {[path |-> obs.ilog[i].path, comp |-> obs.ilog[i].comp, stack |-> obs.ilog[i].stack] :
                  i \in 1..Len(obs.ilog)} = Chains(rootInstance, <<>>)

\* a pass was aborted by a component that threw below the root component,
\* after an earlier sibling had been invoked and left
C32_Witness ==
    /\ obs.last = "render" /\ obs.thrown /\ passes >= 2
    /\ componentStack = <<>>
    /\ Len(obs.ilog) >= 3
    /\ Len(obs.ilog[Len(obs.ilog)].stack) = 2
    /\ obs.ilog[Len(obs.ilog)].comp \in {"X", "Y"}

(***************************************************************************)
(* C33: a setter kept from a component whose hook-store entry the sweep    *)
(* has deleted changes no slot of the hook store when it is called, also   *)
(* when a component has since been mounted at the same path: the call      *)
(* leaves the store, the tree, the target and the effect queue alone and   *)
(* at most schedules one render pass; and a component mounted at a path    *)
(* whose entry was deleted starts from its initial state.                  *)
(***************************************************************************)
C33_Step ==
    /\ obs'.last = "held" =>
          /\ hooksState' = hooksState /\ hooksCursor' = hooksCursor
          /\ rootInstance' = rootInstance /\ dom' = dom
          /\ effectsQueue' = effectsQueue /\ flushScheduled' = flushScheduled
          /\ microtasks' = microtasks \/ (~renderScheduled /\ microtasks' = Append(microtasks, "render"))
    /\ obs'.last = "render" =>
          \A i \in 1..Len(obs'.hlog) :
              (/\ obs'.hlog[i].op = "useState" /\ obs'.hlog[i].comp # "App"
               /\ obs'.hlog[i].path \notin DOMAIN hooksState)
                  => (obs'.hlog[i].fresh /\ obs'.hlog[i].value = 0)

C33_StaleSetterIsolation == [][C33_Step]_vars

\* a kept setter wrote its own array and scheduled a pass while a component
\* mounted later at the same path holds another value in that slot
C33_Witness ==
    /\ obs.last = "held" /\ renderScheduled
    /\ \E s \in universe.held :
           /\ s.path \in DOMAIN hooksState
           /\ s.cursor < Len(hooksState[s.path])
           /\ s.hooks[s.cursor + 1].value = 1
           /\ hooksState[s.path][s.cursor + 1].value = 0

====
